---------------------------- MODULE Spec2Model ----------------------------
(***************************************************************************)
(* Wizard of Wor: the movement, collision, combat and phase logic of the   *)
(* 2D variant (src/wizard_of_wor.py) and the phase logic of the isometric  *)
(* and first-person variants (src/wizard_of_wor_iso.py,                    *)
(* src/wizard_of_wor_3d.py).                                               *)
(*                                                                         *)
(* Units.  The player's coordinates are Python ints and are kept in        *)
(* pixels.  Enemy coordinates are Python floats: a speed is                *)
(* base_speed * ENEMY_SPEED_MULTIPLIER = base_speed * 3/10, so every enemy *)
(* coordinate, and every bullet coordinate (a bullet starts at its         *)
(* shooter's position), is a whole number of tenths of a pixel; they are   *)
(* kept in tenths (Scale per pixel).  pygame.Rect truncates float          *)
(* arguments toward zero, which Trunc does.  Float rounding error          *)
(* (3 * 0.3 = 0.8999999999999999) is not modelled.                         *)
(***************************************************************************)
EXTENDS Integers, Sequences, FiniteSets, TLC

VARIABLES
    player,         \* 2D Game.player: x, y, direction, lives, score, shoot_cooldown
    player_spawn,   \* 2D Game.player_spawn
    enemies,        \* 2D Game.enemies: a sequence of Enemy records
    bullets,        \* 2D Game.bullets: a sequence of Bullet records
    phase,          \* 2D Game.phase
    phase_timer,    \* 2D Game.phase_timer
    worluk_escaped, \* 2D Game.worluk_escaped
    game_over,      \* 2D Game.game_over
    victory,        \* 2D Game.victory
    dungeon,        \* 2D Game.dungeon
    log,            \* what the last operation did (history, not program state)
    gm              \* the isometric / first-person GameManager and its pending callbacks

vars == <<player, player_spawn, enemies, bullets, phase, phase_timer,
          worluk_escaped, game_over, victory, dungeon, log, gm>>

game2d == <<player, player_spawn, enemies, bullets, phase, phase_timer,
            worluk_escaped, game_over, victory, dungeon>>

---------------------------------------------------------------------------
(* Constants of src/wizard_of_wor.py *)

TILE_SIZE == 41
MAZE_WIDTH == 21
MAZE_HEIGHT == 15
GAME_WIDTH == MAZE_WIDTH * TILE_SIZE
GAME_HEIGHT == MAZE_HEIGHT * TILE_SIZE

\* ENEMY_SPEED_MULTIPLIER = 0.3 = 3 / Scale; enemy and bullet coordinates are
\* counted in 1/Scale pixel.
Scale == 10
ENEMY_SPEED_MULTIPLIER_NUM == 3

MAZE == <<
    <<1, 1, 1, 1, 1, 1, 1, 1, 1, 1, 1, 1, 1, 1, 1, 1, 1, 1, 1, 1, 1>>,
    <<1, 0, 0, 0, 0, 0, 0, 0, 0, 0, 1, 0, 0, 0, 0, 0, 0, 0, 0, 0, 1>>,
    <<1, 0, 1, 1, 0, 1, 1, 1, 0, 0, 1, 0, 0, 1, 1, 1, 0, 1, 1, 0, 1>>,
    <<1, 0, 0, 0, 0, 0, 0, 0, 0, 0, 0, 0, 0, 0, 0, 0, 0, 0, 0, 0, 1>>,
    <<1, 1, 1, 0, 1, 0, 1, 1, 1, 0, 1, 0, 1, 1, 1, 0, 1, 0, 1, 1, 1>>,
    <<1, 0, 0, 0, 0, 0, 0, 0, 0, 0, 0, 0, 0, 0, 0, 0, 0, 0, 0, 0, 1>>,
    <<1, 0, 1, 1, 0, 1, 0, 1, 1, 1, 1, 1, 1, 1, 0, 1, 0, 1, 1, 0, 1>>,
    <<0, 0, 0, 0, 0, 1, 0, 0, 0, 0, 0, 0, 0, 0, 0, 1, 0, 0, 0, 0, 0>>,
    <<1, 0, 1, 1, 0, 1, 0, 1, 1, 1, 1, 1, 1, 1, 0, 1, 0, 1, 1, 0, 1>>,
    <<1, 0, 0, 0, 0, 0, 0, 0, 0, 0, 0, 0, 0, 0, 0, 0, 0, 0, 0, 0, 1>>,
    <<1, 1, 1, 0, 1, 0, 1, 1, 1, 0, 1, 0, 1, 1, 1, 0, 1, 0, 1, 1, 1>>,
    <<1, 0, 0, 0, 0, 0, 0, 0, 0, 0, 0, 0, 0, 0, 0, 0, 0, 0, 0, 0, 1>>,
    <<1, 0, 1, 1, 0, 1, 1, 1, 0, 0, 1, 0, 0, 1, 1, 1, 0, 1, 1, 0, 1>>,
    <<1, 0, 0, 0, 0, 0, 0, 0, 0, 0, 1, 0, 0, 0, 0, 0, 0, 0, 0, 0, 1>>,
    <<1, 1, 1, 1, 1, 1, 1, 1, 1, 1, 1, 1, 1, 1, 1, 1, 1, 1, 1, 1, 1>> >>

\* MAZE[row][col] with Python's 0-based indices.
MazeAt(row, col) == MAZE[row + 1][col + 1]

---------------------------------------------------------------------------
(* Arithmetic helpers *)

Abs(v) == IF v < 0 THEN -v ELSE v
Min(a, b) == IF a <= b THEN a ELSE b

\* int(v) of a float v given in tenths: truncation toward zero (pygame.Rect).
Trunc(v) == IF v >= 0 THEN v \div Scale ELSE -((-v) \div Scale)

\* v // d for d > 0: Python's floor division (\div floors for a positive divisor).
FloorDiv(v, d) == v \div d

\* round(v / TILE_SIZE) for an int v: TILE_SIZE is odd, so v / TILE_SIZE is never
\* halfway between two integers and round-half-even is round-to-nearest.
RoundTile(v) == FloorDiv(2 * v + TILE_SIZE, 2 * TILE_SIZE)

---------------------------------------------------------------------------
(* Rectangles and wall collision *)

Rect(x, y, w, h) == [x |-> x, y |-> y, w |-> w, h |-> h]

\* pygame.Rect.colliderect.
colliderect(a, b) ==
    /\ a.x < b.x + b.w
    /\ b.x < a.x + a.w
    /\ a.y < b.y + b.h
    /\ b.y < a.y + a.h

\* The rectangles of the wall tiles, as (col, row) pairs.
WALL_RECTS ==
    {cr \in (0 .. MAZE_WIDTH - 1) \X (0 .. MAZE_HEIGHT - 1) : MazeAt(cr[2], cr[1]) = 1}

WallRect(cr) == Rect(cr[1] * TILE_SIZE, cr[2] * TILE_SIZE, TILE_SIZE, TILE_SIZE)

\* A faulty variant: only the tile under the rectangle's top-left corner is tested.
fast_wall_collision_topleft(rect) ==
    <<FloorDiv(rect.x, TILE_SIZE), FloorDiv(rect.y, TILE_SIZE)>> \in WALL_RECTS

\* rect.collidelist(WALL_RECTS) != -1: some wall tile's rectangle overlaps rect.
\* A tile (col, row) overlaps rect exactly when col lies in
\* rect.x // TILE_SIZE .. (rect.x + rect.w - 1) // TILE_SIZE and row likewise, so
\* only those tiles are tested.
fast_wall_collision(rect) ==
    \E col \in FloorDiv(rect.x, TILE_SIZE) .. FloorDiv(rect.x + rect.w - 1, TILE_SIZE),
       row \in FloorDiv(rect.y, TILE_SIZE) .. FloorDiv(rect.y + rect.h - 1, TILE_SIZE) :
        /\ <<col, row>> \in WALL_RECTS
        /\ colliderect(rect, WallRect(<<col, row>>))

---------------------------------------------------------------------------
(* Player *)

PLAYER_SPEED == 5
PLAYER_LIVES == 3
BODY == TILE_SIZE - 4

Player(x, y) ==
    [x |-> x, y |-> y, direction |-> <<1, 0>>, lives |-> PLAYER_LIVES, score |-> 0,
     shoot_cooldown |-> 0]

PlayerRect(p) == Rect(p.x, p.y, BODY, BODY)

\* One corner-slide candidate of Player.move: the tile-aligned coordinate `target`,
\* tested with rectangle `test`; applies when within tolerance and collision-free.
SlideApplies(cur, target, test) ==
    /\ Abs(target - cur) <= TILE_SIZE \div 2 + 4
    /\ ~fast_wall_collision(test)

\* A faulty variant: the slide always covers the full speed.
Slid_full(cur, target, speed) ==
    IF target - cur > 0 THEN cur + speed ELSE cur - speed

\* The coordinate after a slide toward target.
Slid(cur, target, speed) ==
    IF target - cur > 0 THEN cur + Min(Abs(target - cur), speed)
                        ELSE cur - Min(Abs(target - cur), speed)

\* The candidates in the order the code tries them: the nearest aligned offset,
\* then one tile before, then one tile after.
SlideTargets(cur) ==
    LET t == RoundTile(cur) * TILE_SIZE + 2
    IN  <<t, t - TILE_SIZE, t + TILE_SIZE>>

\* A faulty variant: the wraparound of a bullet (to GAME_WIDTH and to 0, past
\* GAME_WIDTH) applied to the player.
MoveCandidate_as_bullet(p, dx, dy) ==
    LET cx == p.x + dx * PLAYER_SPEED
    IN  [x |-> IF cx < 0 THEN GAME_WIDTH
               ELSE IF cx > GAME_WIDTH THEN 0 ELSE cx,
         y |-> p.y + dy * PLAYER_SPEED,
         wrapped |-> cx < 0 \/ cx > GAME_WIDTH]

\* The candidate position of Player.move after the tunnel wraparound.
MoveCandidate(p, dx, dy) ==
    LET cx == p.x + dx * PLAYER_SPEED
    IN  [x |-> IF cx < 0 THEN GAME_WIDTH - TILE_SIZE
               ELSE IF cx > GAME_WIDTH - TILE_SIZE THEN 0 ELSE cx,
         y |-> p.y + dy * PLAYER_SPEED,
         wrapped |-> cx < 0 \/ cx > GAME_WIDTH - TILE_SIZE]

\* The indexes of the slide candidates that apply, for a horizontal input (a
\* slide in y) and for a vertical input (a slide in x).
SlidesY(p, c) ==
    {i \in 1 .. 3 : SlideApplies(p.y, SlideTargets(p.y)[i],
                                 Rect(c.x, SlideTargets(p.y)[i], BODY, BODY))}
SlidesX(p, c) ==
    {i \in 1 .. 3 : SlideApplies(p.x, SlideTargets(p.x)[i],
                                 Rect(SlideTargets(p.x)[i], c.y, BODY, BODY))}

First(S) == CHOOSE i \in S : \A j \in S : i <= j

\* Which path Player.move takes: the candidate is committed, the player slides
\* in y or in x, or nothing moves.
MoveOutcome(p, dx, dy) ==
    LET c == MoveCandidate(p, dx, dy)
    IN  IF ~fast_wall_collision(Rect(c.x, c.y, BODY, BODY)) THEN "commit"
        ELSE IF dx # 0 /\ SlidesY(p, c) # {} THEN "slide_y"
        ELSE IF dy # 0 /\ SlidesX(p, c) # {} THEN "slide_x"
        ELSE "blocked"

\* Player.move(dx, dy, maze): the player after the call.
PlayerMove(p, dx, dy) ==
    LET c == MoveCandidate(p, dx, dy)
        out == MoveOutcome(p, dx, dy)
        q == [p EXCEPT !.direction = IF dx # 0 \/ dy # 0 THEN <<dx, dy>> ELSE @]
    IN  CASE out = "commit" -> [q EXCEPT !.x = c.x, !.y = c.y]
          [] out = "slide_y" ->
                [q EXCEPT !.y = Slid(p.y, SlideTargets(p.y)[First(SlidesY(p, c))],
                                     PLAYER_SPEED)]
          [] out = "slide_x" ->
                [q EXCEPT !.x = Slid(p.x, SlideTargets(p.x)[First(SlidesX(p, c))],
                                     PLAYER_SPEED)]
          [] out = "blocked" -> q

---------------------------------------------------------------------------
(* The random source.  random.randint and random.choice are inputs: the model
   draws them from the sample sets below. *)

\* How many values of a..b random.randint(a, b) is sampled at: the lowest, then
\* the highest, then values in between.
TimerSamples == 2

RandInt(a, b) ==
    {v \in a .. b : \E k \in 0 .. TimerSamples - 1 :
        v = IF k = 0 THEN a
            ELSE IF k = 1 THEN b
            ELSE a + ((k - 1) * (b - a)) \div TimerSamples}

DIRS == <<(<<1, 0>>), (<<-1, 0>>), (<<0, 1>>), (<<0, -1>>)>>
DirSet == {DIRS[i] : i \in 1 .. 4}

---------------------------------------------------------------------------
(* Enemy *)

EnemyTypes == {"burwor", "garwor", "thorwor", "worluk", "wizard"}

base_speed(enemy_type) ==
    CASE enemy_type = "burwor" -> 3
      [] enemy_type = "garwor" -> 3
      [] enemy_type = "thorwor" -> 4
      [] enemy_type = "worluk" -> 5
      [] enemy_type = "wizard" -> 0

\* A faulty variant: every species is worth the default of points.get.
points_default(enemy_type) == 100

points(enemy_type) ==
    CASE enemy_type = "burwor" -> 100
      [] enemy_type = "garwor" -> 200
      [] enemy_type = "thorwor" -> 500
      [] enemy_type = "worluk" -> 1000
      [] enemy_type = "wizard" -> 2500

\* Enemy.__init__: the enemies it can construct at pixel position (x, y).
\* speed is in tenths of a pixel per update.  Enemy.frame only drives drawing
\* (and the wizard's flicker, which only drawing reads) and is left out.
Enemy(x, y, enemy_type) ==
    {[enemy_type |-> enemy_type,
      x |-> x * Scale, y |-> y * Scale,
      speed |-> base_speed(enemy_type) * ENEMY_SPEED_MULTIPLIER_NUM,
      direction |-> d,
      shoot_timer |-> st,
      active |-> TRUE,
      visible |-> TRUE,
      invisible_timer |-> it,
      teleport_timer |-> tt] :
        d \in DirSet,
        st \in RandInt(30, 90),
        it \in IF enemy_type = "garwor" THEN RandInt(60, 120) ELSE {0},
        tt \in IF enemy_type = "wizard" THEN RandInt(90, 180) ELSE {0}}

\* Enemy.get_rect: pygame.Rect truncates the float position.
EnemyRect(e) == Rect(Trunc(e.x), Trunc(e.y), BODY, BODY)

\* The directions _pick_new_direction finds free: the enemy's rectangle displaced
\* by 2 * speed does not collide.
Possible(e) ==
    {d \in DirSet :
        ~fast_wall_collision(Rect(Trunc(e.x + d[1] * e.speed * 2),
                                  Trunc(e.y + d[2] * e.speed * 2), BODY, BODY))}

\* The worluk's preferred directions, in order.
WorlukPreferred(e) ==
    LET tunnel_y == 7 * TILE_SIZE * Scale
    IN  IF e.y < tunnel_y THEN <<(<<0, 1>>), (<<-1, 0>>), (<<1, 0>>)>>
        ELSE IF e.y > tunnel_y THEN <<(<<0, -1>>), (<<-1, 0>>), (<<1, 0>>)>>
        ELSE <<(<<-1, 0>>), (<<1, 0>>)>>

Sign(v) == IF v > 0 THEN 1 ELSE IF v < 0 THEN -1 ELSE 0

\* A faulty variant: the chase branch sets its direction without looking it up
\* in the list of free directions.
pick_new_direction_blind_chase(e, p) ==
    LET possible == Possible(e)
        pref == WorlukPreferred(e)
        hits == {i \in 1 .. Len(pref) : pref[i] \in possible}
        dx == Sign(p.x * Scale - e.x)
        dy == Sign(p.y * Scale - e.y)
    IN  IF possible = {} THEN {e.direction}
        ELSE IF e.enemy_type = "worluk" /\ hits # {}
          THEN {pref[CHOOSE i \in hits : \A j \in hits : i <= j]}
        ELSE {<<dx, 0>>, <<0, dy>>} \cup possible

\* A faulty variant: without the early return, random.choice is reached with an
\* empty list and raises (no direction comes back).
pick_new_direction_no_return(e, p) ==
    LET possible == Possible(e)
        pref == WorlukPreferred(e)
        hits == {i \in 1 .. Len(pref) : pref[i] \in possible}
        dx == Sign(p.x * Scale - e.x)
        dy == Sign(p.y * Scale - e.y)
        chase == {d \in {<<dx, 0>>, <<0, dy>>} : d \in possible}
    IN  IF e.enemy_type = "worluk" /\ hits # {}
          THEN {pref[CHOOSE i \in hits : \A j \in hits : i <= j]}
        ELSE chase \cup possible

\* Enemy._pick_new_direction(player): the directions the enemy can have after
\* the call, over the outcomes of random.random() and random.choice.
pick_new_direction(e, p) ==
    LET possible == Possible(e)
        pref == WorlukPreferred(e)
        hits == {i \in 1 .. Len(pref) : pref[i] \in possible}
        dx == Sign(p.x * Scale - e.x)
        dy == Sign(p.y * Scale - e.y)
        chase == {d \in {<<dx, 0>>, <<0, dy>>} : d \in possible}
    IN  IF possible = {} THEN {e.direction}
        ELSE IF e.enemy_type = "worluk" /\ hits # {}
          THEN {pref[CHOOSE i \in hits : \A j \in hits : i <= j]}
        ELSE chase \cup possible

\* shoot_timer -= 1.  The code only tests shoot_timer <= 0, so the counter of a
\* species that never resets it is held at TIMER_FLOOR instead of running down
\* without bound.
TIMER_FLOOR == -1
Tick(t) == IF t - 1 < TIMER_FLOOR THEN TIMER_FLOOR ELSE t - 1

\* A faulty variant: the countdown is reset to half its range.
GarworStep_short(e) ==
    IF e.enemy_type # "garwor" THEN {e}
    ELSE IF e.invisible_timer - 1 <= 0
      THEN {[e EXCEPT !.visible = ~e.visible, !.invisible_timer = t] :
                t \in RandInt(30, 60)}
    ELSE {[e EXCEPT !.invisible_timer = e.invisible_timer - 1]}

\* The garwor's invisibility step of Enemy.update.
GarworStep(e) ==
    IF e.enemy_type # "garwor" THEN {e}
    ELSE IF e.invisible_timer - 1 <= 0
      THEN {[e EXCEPT !.visible = ~e.visible, !.invisible_timer = t] :
                t \in RandInt(60, 120)}
    ELSE {[e EXCEPT !.invisible_timer = e.invisible_timer - 1]}

\* A faulty variant: the countdown expires one update early.
WizardStep_early(e, picks) ==
    IF e.teleport_timer - 1 <= 1
      THEN {[e EXCEPT !.x = pos[1] * Scale, !.y = pos[2] * Scale, !.teleport_timer = t] :
                pos \in picks, t \in RandInt(60, 120)}
    ELSE {[e EXCEPT !.teleport_timer = e.teleport_timer - 1]}

\* The wizard's step of Enemy.update: teleport on the countdown, no movement.
\* picks: the positions random.choice(valid_positions) is sampled at.
WizardStep(e, picks) ==
    IF e.teleport_timer - 1 <= 0
      THEN {[e EXCEPT !.x = pos[1] * Scale, !.y = pos[2] * Scale, !.teleport_timer = t] :
                pos \in picks, t \in RandInt(60, 120)}
    ELSE {[e EXCEPT !.teleport_timer = e.teleport_timer - 1]}

\* The movement step of Enemy.update, from the candidate position on.
MoveStep(e, p) ==
    LET cx == e.x + e.direction[1] * e.speed
        new_y == e.y + e.direction[2] * e.speed
        new_x == IF cx < 0 THEN (GAME_WIDTH - TILE_SIZE) * Scale
                 ELSE IF cx > (GAME_WIDTH - TILE_SIZE) * Scale THEN 0 ELSE cx
        escaped == /\ e.enemy_type = "worluk"
                   /\ \/ cx < FloorDiv(-TILE_SIZE, 2) * Scale
                      \/ cx > GAME_WIDTH * Scale
        moved == IF ~fast_wall_collision(Rect(Trunc(new_x), Trunc(new_y), BODY, BODY))
                   THEN {[e EXCEPT !.x = new_x, !.y = new_y]}
                 ELSE {[e EXCEPT !.direction = d] : d \in pick_new_direction(e, p)}
    IN  IF escaped THEN {[e EXCEPT !.active = FALSE]}
        ELSE moved \cup
             UNION {{[m EXCEPT !.direction = d] : d \in pick_new_direction(m, p)} :
                        m \in moved}

\* Enemy.update(maze, player, valid_positions): the enemies the call can leave.
Enemy_update(e, p, valid_positions, picks) ==
    LET e1 == [e EXCEPT !.shoot_timer = Tick(e.shoot_timer)]
    IN  UNION {IF g.enemy_type = "wizard" /\ valid_positions # <<>>
                 THEN WizardStep(g, picks)
               ELSE MoveStep(g, p) : g \in GarworStep(e1)}

---------------------------------------------------------------------------
(* Game: spawn positions *)

\* Game.is_valid_spawn(x, y).
is_valid_spawn(x, y) ==
    ~\E cr \in WALL_RECTS : colliderect(Rect(x, y, BODY, BODY), WallRect(cr))

\* A faulty variant: max_row is ignored.
find_valid_spawn_positions_any_row(max_row) ==
    LET cells == {i \in 0 .. MAZE_WIDTH * MAZE_HEIGHT - 1 :
                     /\ MazeAt(i \div MAZE_WIDTH, i % MAZE_WIDTH) = 0
                     /\ is_valid_spawn((i % MAZE_WIDTH) * TILE_SIZE + 2,
                                       (i \div MAZE_WIDTH) * TILE_SIZE + 2)}
        nth(k) == CHOOSE i \in cells : Cardinality({j \in cells : j < i}) = k - 1
    IN  [k \in 1 .. Cardinality(cells) |->
            <<(nth(k) % MAZE_WIDTH) * TILE_SIZE + 2,
              (nth(k) \div MAZE_WIDTH) * TILE_SIZE + 2>>]

\* Game.find_valid_spawn_positions(max_row): the valid open cells in row-major
\* order, as the code appends them (cell i is row i \div MAZE_WIDTH, column
\* i % MAZE_WIDTH).
find_valid_spawn_positions(max_row) ==
    LET cells == {i \in 0 .. MAZE_WIDTH * MAZE_HEIGHT - 1 :
                     /\ i \div MAZE_WIDTH <= max_row
                     /\ MazeAt(i \div MAZE_WIDTH, i % MAZE_WIDTH) = 0
                     /\ is_valid_spawn((i % MAZE_WIDTH) * TILE_SIZE + 2,
                                       (i \div MAZE_WIDTH) * TILE_SIZE + 2)}
        nth(k) == CHOOSE i \in cells : Cardinality({j \in cells : j < i}) = k - 1
    IN  [k \in 1 .. Cardinality(cells) |->
            <<(nth(k) % MAZE_WIDTH) * TILE_SIZE + 2,
              (nth(k) \div MAZE_WIDTH) * TILE_SIZE + 2>>]

\* self.valid_positions = self.find_valid_spawn_positions()
valid_positions == find_valid_spawn_positions(MAZE_HEIGHT)

Range(f) == {f[i] : i \in DOMAIN f}

\* Game.find_player_spawn: the first valid cell of columns 1..3 of row 13.  (The
\* fallbacks are not reached in this maze.)
find_player_spawn ==
    LET spawn_row == MAZE_HEIGHT - 2
        ok == {col \in 1 .. 3 :
                  /\ MazeAt(spawn_row, col) = 0
                  /\ is_valid_spawn(col * TILE_SIZE + 2, spawn_row * TILE_SIZE + 2)}
        col == CHOOSE c \in ok : \A d \in ok : c <= d
    IN  <<col * TILE_SIZE + 2, spawn_row * TILE_SIZE + 2>>

\* The cells random.choice(self.valid_positions) is sampled at: the player's
\* spawn cell (1, 13), a cell of the same corridor (5, 13), the two tunnel
\* mouths (0, 7) and (20, 7), and a cell of the top corridor (1, 1).
SampleCells ==
    {cell \in Range(valid_positions) :
        cell \in {<<1 * TILE_SIZE + 2, 13 * TILE_SIZE + 2>>,
                  <<5 * TILE_SIZE + 2, 13 * TILE_SIZE + 2>>,
                  <<0 * TILE_SIZE + 2, 7 * TILE_SIZE + 2>>,
                  <<20 * TILE_SIZE + 2, 7 * TILE_SIZE + 2>>,
                  <<1 * TILE_SIZE + 2, 1 * TILE_SIZE + 2>>}}

---------------------------------------------------------------------------
(* Bullet *)

BULLET_SPEED == 14

Bullet(x, y, direction, is_player) ==
    [x |-> x, y |-> y, direction |-> direction, is_player |-> is_player, active |-> TRUE]

\* Bullet.get_rect: pygame.Rect(self.x - 4, self.y - 4, 8, 8).
BulletRect(b) == Rect(Trunc(b.x - 4 * Scale), Trunc(b.y - 4 * Scale), 8, 8)

\* Bullet.update(maze).  The trail only drives drawing and is left out.
Bullet_update(b) ==
    LET cx == b.x + b.direction[1] * BULLET_SPEED * Scale
        y == b.y + b.direction[2] * BULLET_SPEED * Scale
        x == IF cx < 0 THEN GAME_WIDTH * Scale
             ELSE IF cx > GAME_WIDTH * Scale THEN 0 ELSE cx
        tile_x == FloorDiv(x, TILE_SIZE * Scale)
        tile_y == FloorDiv(y, TILE_SIZE * Scale)
        in_wall == /\ 0 <= tile_x /\ tile_x < MAZE_WIDTH
                   /\ 0 <= tile_y /\ tile_y < MAZE_HEIGHT
                   /\ MazeAt(tile_y, tile_x) = 1
        outside == y < 0 \/ y > GAME_HEIGHT * Scale
    IN  [b EXCEPT !.x = x, !.y = y, !.active = b.active /\ ~in_wall /\ ~outside]

---------------------------------------------------------------------------
(* Enemy shooting *)

\* A faulty variant: every species reloads as fast as the wizard.
should_shoot_fast(e, p) ==
    IF e.enemy_type \in {"burwor", "worluk"} THEN {[e |-> e, shoot |-> FALSE]}
    ELSE IF e.shoot_timer <= 0
      THEN IF e.enemy_type = "wizard"
             THEN {[e |-> [e EXCEPT !.shoot_timer = t], shoot |-> TRUE] :
                      t \in RandInt(30, 60)}
           ELSE {[e |-> [e EXCEPT !.shoot_timer = t],
                  shoot |-> \/ Abs(e.x - p.x * Scale) < TILE_SIZE * 2 * Scale
                            \/ Abs(e.y - p.y * Scale) < TILE_SIZE * 2 * Scale] :
                      t \in RandInt(30, 60)}
    ELSE {[e |-> e, shoot |-> FALSE]}

\* Enemy.should_shoot(player): the (enemy, answer) pairs the call can leave.
should_shoot(e, p) ==
    IF e.enemy_type \in {"burwor", "worluk"} THEN {[e |-> e, shoot |-> FALSE]}
    ELSE IF e.shoot_timer <= 0
      THEN IF e.enemy_type = "wizard"
             THEN {[e |-> [e EXCEPT !.shoot_timer = t], shoot |-> TRUE] :
                      t \in RandInt(30, 60)}
           ELSE {[e |-> [e EXCEPT !.shoot_timer = t],
                  shoot |-> \/ Abs(e.x - p.x * Scale) < TILE_SIZE * 2 * Scale
                            \/ Abs(e.y - p.y * Scale) < TILE_SIZE * 2 * Scale] :
                      t \in RandInt(90, 200)}
    ELSE {[e |-> e, shoot |-> FALSE]}

\* Enemy.get_shoot_direction(player).
get_shoot_direction(e, p) ==
    IF Abs(e.x - p.x * Scale) < TILE_SIZE * 2 * Scale
      THEN <<0, IF p.y * Scale > e.y THEN 1 ELSE -1>>
    ELSE <<IF p.x * Scale > e.x THEN 1 ELSE -1, 0>>

---------------------------------------------------------------------------
(* Game: one frame of Game.run is handle_input followed by update.  A game
   state g is the record of the Game fields; g.ev collects what the update did. *)

SHOOT_COOLDOWN == 12
WORLUK_DELAY == 60
WIZARD_DELAY == 90

\* What an update did: the life losses, the enemies removed by player bullets,
\* a worluk removed as escaped, a wizard whose position changed, a wizard whose
\* teleport countdown expired, whether phase management found the list empty,
\* and the bullets the enemies fired.
NoEvents ==
    [hits |-> <<>>, kills |-> <<>>, escaped |-> FALSE, teleported |-> FALSE,
     expired |-> FALSE, empty |-> FALSE, fired |-> <<>>]

\* A faulty variant: the player fires again while one tick of the cooldown is left.
handle_input_early(g, dx, dy, space) ==
    LET p1 == PlayerMove(g.player, dx, dy)
        fires == space /\ p1.shoot_cooldown <= 1
        cd == IF fires THEN SHOOT_COOLDOWN ELSE p1.shoot_cooldown
        shot == Bullet((p1.x + TILE_SIZE \div 2) * Scale, (p1.y + TILE_SIZE \div 2) * Scale,
                       p1.direction, TRUE)
    IN  [g EXCEPT !.player = [p1 EXCEPT !.shoot_cooldown = IF cd > 0 THEN cd - 1 ELSE cd],
                  !.bullets = IF fires THEN Append(@, shot) ELSE @]

\* Game.handle_input with the arrow keys giving (dx, dy) and space held or not.
handle_input(g, dx, dy, space) ==
    LET p1 == PlayerMove(g.player, dx, dy)
        fires == space /\ p1.shoot_cooldown <= 0
        cd == IF fires THEN SHOOT_COOLDOWN ELSE p1.shoot_cooldown
        shot == Bullet((p1.x + TILE_SIZE \div 2) * Scale, (p1.y + TILE_SIZE \div 2) * Scale,
                       p1.direction, TRUE)
    IN  [g EXCEPT !.player = [p1 EXCEPT !.shoot_cooldown = IF cd > 0 THEN cd - 1 ELSE cd],
                  !.bullets = IF fires THEN Append(@, shot) ELSE @]

\* seq without the elements at the indexes in gone.
Without(seq, gone) ==
    LET idx == SelectSeq([k \in DOMAIN seq |-> k], LAMBDA k : k \notin gone)
    IN  [n \in DOMAIN idx |-> seq[idx[n]]]

\* A faulty variant: the bullets are updated, the inactive ones stay in the list.
UpdateBullets_keep(g) ==
    [g EXCEPT !.bullets = [i \in DOMAIN g.bullets |-> Bullet_update(g.bullets[i])]]

\* "Update bullets": every bullet is updated, the inactive ones are removed.
UpdateBullets(g) ==
    LET moved == [i \in DOMAIN g.bullets |-> Bullet_update(g.bullets[i])]
        IsActive(b) == b.active
    IN  [g EXCEPT !.bullets = SelectSeq(moved, IsActive)]

\* "Update enemies": each enemy in turn is updated and asked whether it shoots;
\* the set of (enemies, new bullets) the loop over enemies[i..] can produce.
RECURSIVE EnemyLoop(_, _, _, _)
EnemyLoop(es, i, p, picks) ==
    IF i > Len(es) THEN {[enemies |-> <<>>, shots |-> <<>>]}
    ELSE {[enemies |-> <<r.e>> \o rest.enemies,
           shots |-> (IF r.shoot
                        THEN <<Bullet(r.e.x + (TILE_SIZE \div 2) * Scale,
                                      r.e.y + (TILE_SIZE \div 2) * Scale,
                                      get_shoot_direction(r.e, p), FALSE)>>
                      ELSE <<>>) \o rest.shots] :
            r \in UNION {should_shoot(u, p) :
                            u \in Enemy_update(es[i], p, valid_positions, picks)},
            rest \in EnemyLoop(es, i + 1, p, picks)}

UpdateEnemies(g, picks) ==
    {[g EXCEPT !.enemies = r.enemies, !.bullets = @ \o r.shots,
               !.ev.fired = r.shots,
               !.ev.teleported = \E i \in DOMAIN r.enemies :
                                    /\ r.enemies[i].enemy_type = "wizard"
                                    /\ <<r.enemies[i].x, r.enemies[i].y>> #
                                       <<g.enemies[i].x, g.enemies[i].y>>,
               !.ev.expired = \E i \in DOMAIN r.enemies :
                                 /\ r.enemies[i].enemy_type = "wizard"
                                 /\ r.enemies[i].teleport_timer >=
                                    g.enemies[i].teleport_timer] :
        r \in EnemyLoop(g.enemies, 1, g.player, picks)}

RemoveAt(seq, i) == SubSeq(seq, 1, i - 1) \o SubSeq(seq, i + 1, Len(seq))

\* A faulty variant: the bullet goes on through every enemy it overlaps.
RECURSIVE BulletEnemy_pierce(_, _, _, _)
BulletEnemy_pierce(g, bs, i, gone) ==
    IF i > Len(bs)
      THEN [g EXCEPT !.bullets = Without(bs, gone)]
    ELSE LET struck == {j \in DOMAIN g.enemies :
                           colliderect(BulletRect(bs[i]), EnemyRect(g.enemies[j]))}
             j == First(struck)
         IN  IF bs[i].is_player /\ struck # {}
               THEN BulletEnemy_pierce(
                        [g EXCEPT !.player.score = @ + points(g.enemies[j].enemy_type),
                                  !.enemies = RemoveAt(@, j),
                                  !.ev.kills = Append(@, g.enemies[j])],
                        bs, i, gone \cup {i})
             ELSE BulletEnemy_pierce(g, bs, i + 1, gone)

\* "Bullet-enemy collisions": the loop over the bullets from the i-th of the
\* snapshot bs on; gone is the set of snapshot indexes of the bullets removed.
RECURSIVE BulletEnemy(_, _, _, _)
BulletEnemy(g, bs, i, gone) ==
    IF i > Len(bs)
      THEN [g EXCEPT !.bullets = Without(bs, gone)]
    ELSE LET struck == {j \in DOMAIN g.enemies :
                           colliderect(BulletRect(bs[i]), EnemyRect(g.enemies[j]))}
             j == First(struck)
         IN  IF bs[i].is_player /\ struck # {}
               THEN BulletEnemy(
                        [g EXCEPT !.player.score = @ + points(g.enemies[j].enemy_type),
                                  !.enemies = RemoveAt(@, j),
                                  !.ev.kills = Append(@, g.enemies[j])],
                        bs, i + 1, gone \cup {i})
             ELSE BulletEnemy(g, bs, i + 1, gone)

\* The life-loss handling shared by both kinds of hit: lives -= 1, then game
\* over or the respawn at the spawn point.  kind names the hit in g.ev.
LoseLife(g, kind) ==
    LET lives == g.player.lives - 1
        over == lives <= 0
    IN  [g EXCEPT !.player.lives = lives,
                  !.player.x = IF over THEN @ ELSE g.player_spawn[1],
                  !.player.y = IF over THEN @ ELSE g.player_spawn[2],
                  !.game_over = @ \/ over,
                  !.ev.hits = Append(@, [kind |-> kind, lives |-> lives,
                                         respawned |-> ~over,
                                         at |-> <<g.player.x, g.player.y>>])]

\* A faulty variant: a bullet of either owner that overlaps the player costs a life.
RECURSIVE BulletPlayer_any_owner(_, _, _, _)
BulletPlayer_any_owner(g, bs, i, gone) ==
    IF i > Len(bs) THEN [g EXCEPT !.bullets = Without(bs, gone)]
    ELSE IF colliderect(BulletRect(bs[i]), PlayerRect(g.player))
      THEN BulletPlayer_any_owner(LoseLife(g, "bullet"), bs, i + 1, gone \cup {i})
    ELSE BulletPlayer_any_owner(g, bs, i + 1, gone)

\* "Bullet-player collisions": the loop over the bullets from the i-th of the
\* snapshot bs on.
RECURSIVE BulletPlayer(_, _, _, _)
BulletPlayer(g, bs, i, gone) ==
    IF i > Len(bs) THEN [g EXCEPT !.bullets = Without(bs, gone)]
    ELSE IF ~bs[i].is_player /\ colliderect(BulletRect(bs[i]), PlayerRect(g.player))
      THEN BulletPlayer(LoseLife(g, "bullet"), bs, i + 1, gone \cup {i})
    ELSE BulletPlayer(g, bs, i + 1, gone)

\* "Player-enemy collisions": the first enemy whose rectangle overlaps the
\* player's costs a life; the scan stops there.
PlayerEnemy(g) ==
    IF \E j \in DOMAIN g.enemies : colliderect(PlayerRect(g.player), EnemyRect(g.enemies[j]))
      THEN LoseLife(g, "contact")
    ELSE g

\* "Check for Worluk escape": the inactive worluks are removed.
WorlukEscape(g) ==
    LET gone == {j \in DOMAIN g.enemies :
                    g.enemies[j].enemy_type = "worluk" /\ ~g.enemies[j].active}
    IN  IF gone = {} THEN g
        ELSE [g EXCEPT !.enemies = Without(@, gone), !.worluk_escaped = TRUE,
                       !.ev.escaped = TRUE]

\* A faulty variant: both spawn functions set phase wizard.
spawn_phase_wizard(g, enemy_type, picks) ==
    {[g EXCEPT !.phase = "wizard", !.enemies = Append(@, e), !.phase_timer = 0] :
        e \in UNION {Enemy(pos[1], pos[2], enemy_type) : pos \in picks}}

\* Game.spawn_worluk / Game.spawn_wizard: the phase is set and one enemy of the
\* species is appended at a position random.choice(self.valid_positions) gives.
spawn(g, enemy_type, picks) ==
    {[g EXCEPT !.phase = enemy_type, !.enemies = Append(@, e), !.phase_timer = 0] :
        e \in UNION {Enemy(pos[1], pos[2], enemy_type) : pos \in picks}}

\* A faulty variant: the delays are compared with > instead of >=.
PhaseManagement_late(g, picks) ==
    IF Len(g.enemies) # 0 THEN {g}
    ELSE LET t == g.phase_timer + 1
             g1 == [g EXCEPT !.phase_timer = t, !.ev.empty = TRUE]
         IN  IF g.phase = "normal"
               THEN IF t > WORLUK_DELAY THEN spawn(g1, "worluk", picks) ELSE {g1}
             ELSE IF g.phase = "worluk"
               THEN IF t > WIZARD_DELAY THEN spawn(g1, "wizard", picks) ELSE {g1}
             ELSE IF g.phase = "wizard" THEN {[g1 EXCEPT !.victory = TRUE]}
             ELSE {g1}

\* "Phase management".
PhaseManagement(g, picks) ==
    IF Len(g.enemies) # 0 THEN {g}
    ELSE LET t == g.phase_timer + 1
             g1 == [g EXCEPT !.phase_timer = t, !.ev.empty = TRUE]
         IN  IF g.phase = "normal"
               THEN IF t >= WORLUK_DELAY THEN spawn(g1, "worluk", picks) ELSE {g1}
             ELSE IF g.phase = "worluk"
               THEN IF t >= WIZARD_DELAY THEN spawn(g1, "wizard", picks) ELSE {g1}
             ELSE IF g.phase = "wizard" THEN {[g1 EXCEPT !.victory = TRUE]}
             ELSE {g1}

\* Game.update: the game states one call can leave.  Game.frame, the particle
\* system, the messages and the sounds only drive presentation and are left out.
update(g, picks) ==
    IF g.game_over \/ g.victory THEN {g}
    ELSE UNION {PhaseManagement(
                    WorlukEscape(PlayerEnemy(
                        LET h == BulletEnemy(u, u.bullets, 1, {})
                        IN  BulletPlayer(h, h.bullets, 1, {}))), picks) :
                  u \in UpdateEnemies(UpdateBullets(g), picks)}

---------------------------------------------------------------------------
(* Values of the variables a specification does not use *)

NoGm == [variant |-> "none"]
NoLog == [op |-> "init", n |-> 0]

---------------------------------------------------------------------------
(* SpecMove: Player.move and Enemy.update as operations of their own, in the
   real maze.  Neither operation's collision test reads the other entity's
   position, so the two are explored apart: the player alone in the maze (the
   state between two waves), from the spawn point, over every sequence of moves
   and respawns; and one enemy of each species, spawned at each sampled cell, the
   player standing at the spawn point: a wizard over all its updates, the other
   species over their first MaxEnemyUpdates updates. *)

MaxEnemyUpdates == 6

InitMove ==
    /\ player_spawn = find_player_spawn
    /\ player = Player(player_spawn[1], player_spawn[2])
    /\ enemies \in {<<>>} \cup
          {<<e>> : e \in UNION {Enemy(pos[1], pos[2], t) :
                                   pos \in SampleCells, t \in EnemyTypes}}
    /\ bullets = <<>>
    /\ phase = "normal"
    /\ phase_timer = 0
    /\ worluk_escaped = FALSE
    /\ game_over = FALSE
    /\ victory = FALSE
    /\ dungeon = 1
    /\ log = NoLog
    /\ gm = NoGm

\* handle_input's call self.player.move(dx, dy, MAZE) with one arrow key held.
MovePlayer(dx, dy) ==
    /\ enemies = <<>>
    /\ player' = PlayerMove(player, dx, dy)
    /\ log' = [op |-> "move", n |-> 0, outcome |-> MoveOutcome(player, dx, dy),
               wrapped |-> MoveCandidate(player, dx, dy).wrapped]
    /\ UNCHANGED <<player_spawn, enemies, bullets, phase, phase_timer,
                   worluk_escaped, game_over, victory, dungeon, gm>>

\* The respawn of Game.update: self.player.x, self.player.y = self.player_spawn.
RespawnPlayer ==
    /\ enemies = <<>>
    /\ player' = [player EXCEPT !.x = player_spawn[1], !.y = player_spawn[2]]
    /\ log' = [op |-> "respawn", n |-> 0]
    /\ UNCHANGED <<player_spawn, enemies, bullets, phase, phase_timer,
                   worluk_escaped, game_over, victory, dungeon, gm>>

\* enemy.update(MAZE, self.player, self.valid_positions) for the enemy of the maze.
UpdateEnemy ==
    /\ enemies # <<>>
    /\ enemies[1].active
    /\ enemies[1].enemy_type = "wizard" \/ log.n < MaxEnemyUpdates
    /\ \E e \in Enemy_update(enemies[1], player, valid_positions, SampleCells) :
          enemies' = <<e>>
    /\ log' = [op |-> "update",
               n |-> IF enemies[1].enemy_type = "wizard" THEN 0 ELSE log.n + 1]
    /\ UNCHANGED <<player, player_spawn, bullets, phase, phase_timer,
                   worluk_escaped, game_over, victory, dungeon, gm>>

NextMove ==
    \/ \E d \in DirSet : MovePlayer(d[1], d[2])
    \/ RespawnPlayer
    \/ UpdateEnemy

SpecMove == InitMove /\ [][NextMove]_vars

\* The pixel (px, py) lies in a wall tile of the maze.
InWall(px, py) ==
    /\ px \div TILE_SIZE \in 0 .. MAZE_WIDTH - 1
    /\ py \div TILE_SIZE \in 0 .. MAZE_HEIGHT - 1
    /\ MazeAt(py \div TILE_SIZE, px \div TILE_SIZE) = 1

\* A box smaller than a tile overlaps a wall tile's rectangle exactly when one of
\* its corner pixels lies in a wall tile.
OverlapsWall(rect) ==
    \E px \in {rect.x, rect.x + rect.w - 1}, py \in {rect.y, rect.y + rect.h - 1} :
        InWall(px, py)

\* Every cell an enemy can be spawned at or teleported to (an element of
\* valid_positions) and the player's spawn point are clear of every wall
\* rectangle.
SpawnsClear ==
    \A pos \in Range(valid_positions) \cup {find_player_spawn} :
        /\ ~OverlapsWall(Rect(pos[1], pos[2], BODY, BODY))
        /\ \A cr \in WALL_RECTS : ~colliderect(Rect(pos[1], pos[2], BODY, BODY), WallRect(cr))

\* C1: in every reachable state the bounding box of the player and of every
\* enemy overlaps no wall tile rectangle, and so does the box at every position
\* a spawn, a respawn or a teleport can choose.
C1_NoWallOverlap ==
    /\ SpawnsClear
    /\ ~OverlapsWall(PlayerRect(player))
    /\ \A i \in DOMAIN enemies : ~OverlapsWall(EnemyRect(enemies[i]))

\* The player, away from the spawn row, has just been moved by a corner slide.
C1_Witness ==
    /\ log.op = "move"
    /\ log.outcome \in {"slide_x", "slide_y"}
    /\ player.y # player_spawn[2]

---------------------------------------------------------------------------
(* Spec: the frames of the 2D game (handle_input, then update) from the end of
   the first wave on.  In the initial state five of the six enemies of the wave
   have been shot (score 1100), the last burwor has come down to the player's
   corridor and the bullet the player fired four frames ago is about to reach
   it.  In one initial state the player has all its lives and no enemy bullet is
   in flight; in the other the player is down to its last life and the bullet one
   of the shot enemies fired along the corridor is still on its way. *)

\* The player holds the fire key only while an enemy stands in the player's
\* corridor and fewer than MaxBullets bullets are in the list, and walks at most
\* MaxWalk steps right of the spawn point.
MaxBullets == 1
MaxWalk == 1

\* A worluk is followed over its first MaxWorlukUpdates updates; log.n counts them.
MaxWorlukUpdates == 20

HasWorluk(es) == \E j \in DOMAIN es : es[j].enemy_type = "worluk"
HasWizard(es) == \E j \in DOMAIN es : es[j].enemy_type = "wizard"

\* The history a run of Spec keeps in log, beside the last update's events:
\*   was, frozen  the phase on entry to the last update, and whether that update
\*                returned at once (game_over or victory set)
\*   n            updates of the worluk in the list so far
\*   empty        consecutive calls of update, entered in the same phase (normal
\*                or worluk), with the enemy list empty when phase management is
\*                reached (or, in a call that returns at once, on entry), up to
\*                WIZARD_DELAY
\*   wizard_hits  player bullets that struck the wizard in the list so far
\*   since        updates of the wizard since it spawned or its countdown expired
\*   period       the number of updates the countdown that expired in the last
\*                update took (0 if none did)
\*   first        the countdown that expired in the last update was the wizard's first
\*   relocated    a countdown of the wizard in the list has expired

GameLog ==
    [op |-> "init", was |-> "normal", frozen |-> FALSE, n |-> 0, ev |-> NoEvents,
     empty |-> 0, wizard_hits |-> 0, since |-> 0, period |-> 0, first |-> FALSE,
     relocated |-> FALSE]

History(g) ==
    LET frozen == game_over \/ victory
        emptyNow == IF frozen THEN enemies = <<>> ELSE g.ev.empty
        struck == Len(SelectSeq(g.ev.kills, LAMBDA e : e.enemy_type = "wizard"))
        updated == ~frozen /\ HasWizard(enemies)
    IN  [op |-> "frame",
         was |-> phase,
         frozen |-> frozen,
         ev |-> g.ev,
         n |-> IF frozen THEN log.n
               ELSE IF HasWorluk(enemies) /\ HasWorluk(g.enemies) THEN log.n + 1
               ELSE 0,
         empty |-> IF phase \in {"normal", "worluk"} /\ emptyNow
                     THEN IF log.was = phase THEN Min(log.empty + 1, WIZARD_DELAY) ELSE 1
                   ELSE 0,
         wizard_hits |-> IF frozen THEN log.wizard_hits
                         ELSE (IF HasWizard(enemies) THEN log.wizard_hits ELSE 0) + struck,
         since |-> IF ~updated THEN log.since
                   ELSE IF g.ev.expired THEN 0 ELSE log.since + 1,
         period |-> IF updated /\ g.ev.expired THEN log.since + 1 ELSE 0,
         first |-> updated /\ g.ev.expired /\ ~log.relocated,
         relocated |-> IF frozen THEN log.relocated
                       ELSE HasWizard(enemies) /\ (log.relocated \/ g.ev.expired)]

InSight == \E j \in DOMAIN enemies : Abs(Trunc(enemies[j].y) - player.y) < TILE_SIZE

\* The cells random.choice(self.valid_positions) is sampled at in Spec: the
\* player's spawn cell, the cell four to its right, and the left tunnel mouth.
GamePicks ==
    {cell \in SampleCells : cell[1] <= 5 * TILE_SIZE + 2 /\ cell[2] >= 7 * TILE_SIZE + 2}

GameState ==
    [player |-> player, player_spawn |-> player_spawn, enemies |-> enemies,
     bullets |-> bullets, phase |-> phase, phase_timer |-> phase_timer,
     worluk_escaped |-> worluk_escaped, game_over |-> game_over, victory |-> victory,
     ev |-> NoEvents]

Init ==
    /\ player_spawn = find_player_spawn
    /\ \E last_life \in BOOLEAN :
          /\ player = [Player(player_spawn[1], player_spawn[2]) EXCEPT
                          !.score = 3 * points("burwor") + 2 * points("garwor")
                                    + points("thorwor") - points("burwor"),
                          !.shoot_cooldown = SHOOT_COOLDOWN - 4,
                          !.lives = IF last_life THEN 1 ELSE PLAYER_LIVES]
          /\ bullets = <<Bullet((player_spawn[1] + TILE_SIZE \div 2 + 4 * BULLET_SPEED) * Scale,
                                (player_spawn[2] + TILE_SIZE \div 2) * Scale, <<1, 0>>, TRUE)>>
                       \o (IF last_life
                             THEN <<Bullet((9 * TILE_SIZE + 2 + TILE_SIZE \div 2) * Scale,
                                           (player_spawn[2] + TILE_SIZE \div 2) * Scale,
                                           <<-1, 0>>, FALSE)>>
                           ELSE <<>>)
    /\ enemies \in {<<[e EXCEPT !.shoot_timer = TIMER_FLOOR]>> :
                      e \in Enemy(3 * TILE_SIZE + 2, 13 * TILE_SIZE + 2, "burwor")}
    /\ phase = "normal"
    /\ phase_timer = 0
    /\ worluk_escaped = FALSE
    /\ game_over = FALSE
    /\ victory = FALSE
    /\ dungeon = 1
    /\ log = GameLog
    /\ gm = NoGm

\* One iteration of Game.run's loop without a restart: handle_input, update.
Frame(dx, dy, space) ==
    /\ space => InSight /\ Len(bullets) < MaxBullets
    /\ log.n < MaxWorlukUpdates
    /\ dx # 0 => player.x < player_spawn[1] + MaxWalk * PLAYER_SPEED
    /\ \E g \in update(handle_input(GameState, dx, dy, space), GamePicks) :
          /\ player' = g.player
          /\ enemies' = g.enemies
          /\ bullets' = g.bullets
          /\ phase' = g.phase
          /\ phase_timer' = g.phase_timer
          /\ worluk_escaped' = g.worluk_escaped
          /\ game_over' = g.game_over
          /\ victory' = g.victory
          /\ log' = History(g)
    /\ UNCHANGED <<player_spawn, dungeon, gm>>

Idle == Frame(0, 0, FALSE)
Fire == Frame(0, 0, TRUE)
WalkRight == Frame(1, 0, FALSE)

Next == Idle \/ Fire \/ WalkRight

Spec == Init /\ [][Next]_vars

---------------------------------------------------------------------------
(* SpecGm: the GameManager of the isometric and the 3D variant.  Both run
   update once per frame and leave the spawning of the next phase's enemy to a
   callback, invoke(self.spawn_enemies, delay=1), that the engine runs once the
   delay has passed.  gm holds the manager's fields, the callbacks still pending
   (each with the frames left until it is due) and, as history, the species
   spawned and killed so far.  Where the bullets and the enemies stand is not
   modelled: which enemies the player's bullets reach in a frame, and whether an
   enemy reaches the player, are inputs of the frame. *)

\* The frames the engine draws during the one second of delay.
FramesPerSecond == 60

\* The player bullets that reach an enemy in one frame, at most.
MaxHitsPerFrame == 2

WIZARD_HEALTH == 3

\* Enemy.__init__ (isometric) / Enemy._get_health (3D).
GmEnemy(enemy_type) ==
    [enemy_type |-> enemy_type,
     health |-> IF enemy_type = "wizard" THEN WIZARD_HEALTH ELSE 1]

\* Enemy.take_damage: the enemy after the hit; it dies when health <= 0.
take_damage(e) == [e EXCEPT !.health = @ - 1]

\* GameManager.spawn_enemies: the list is cleared and the phase's enemies made.
spawn_enemies(m) ==
    LET types == CASE m.phase = "normal" ->
                        <<"burwor", "burwor", "burwor", "garwor", "garwor", "thorwor">>
                   [] m.phase = "worluk" -> <<"worluk">>
                   [] m.phase = "wizard" -> <<"wizard">>
    IN  [m EXCEPT !.enemies = [i \in DOMAIN types |-> GmEnemy(types[i])],
                  !.spawned = @ \cup Range(types)]

\* GameManager.__init__ of the given variant.
GameManager(variant) ==
    spawn_enemies([variant |-> variant, phase |-> "normal", enemies |-> <<>>,
                   lives |-> PLAYER_LIVES, score |-> 0,
                   game_over |-> FALSE, victory |-> FALSE,
                   pending |-> <<>>, spawned |-> {}, killed |-> {}, op |-> "init"])

\* GameManager.player_hit.
player_hit(m) ==
    [m EXCEPT !.lives = @ - 1, !.game_over = m.lives - 1 <= 0]

\* "Check bullet-enemy collisions": the player bullets in range, in list order;
\* targets[i] is the index of the first enemy in range of the i-th of them.
RECURSIVE GmBulletHits(_, _, _)
GmBulletHits(m, targets, i) ==
    IF i > Len(targets) THEN m
    ELSE IF targets[i] \notin DOMAIN m.enemies THEN GmBulletHits(m, targets, i + 1)
    ELSE LET j == targets[i]
             e == take_damage(m.enemies[j])
         IN  GmBulletHits(
                 IF e.health <= 0
                   THEN [m EXCEPT !.score = @ + points(e.enemy_type),
                                  !.enemies = RemoveAt(@, j),
                                  !.killed = @ \cup {e.enemy_type}]
                 ELSE [m EXCEPT !.enemies[j] = e],
                 targets, i + 1)

\* "Phase progression" at the end of update.
PhaseProgression(m) ==
    IF Len(m.enemies) # 0 THEN m
    ELSE IF m.phase = "normal"
      THEN [m EXCEPT !.phase = "worluk", !.pending = Append(@, FramesPerSecond)]
    ELSE IF m.phase = "worluk"
      THEN [m EXCEPT !.phase = "wizard", !.pending = Append(@, FramesPerSecond)]
    ELSE IF m.phase = "wizard" THEN [m EXCEPT !.victory = TRUE]
    ELSE m

\* GameManager.update with the frame's bullet hits and enemy contact.
GameManager_update(m, targets, contact) ==
    IF m.game_over \/ m.victory THEN m
    ELSE LET h == GmBulletHits(m, targets, 1)
         IN  PhaseProgression(IF contact /\ h.enemies # <<>> THEN player_hit(h) ELSE h)

\* The sequences of at most MaxHitsPerFrame enemy indexes.
Targets(m) ==
    UNION {[1 .. n -> DOMAIN m.enemies] : n \in 0 .. MaxHitsPerFrame}

InitGm ==
    /\ gm \in {GameManager("iso"), GameManager("3d")}
    /\ player_spawn = find_player_spawn
    /\ player = Player(player_spawn[1], player_spawn[2])
    /\ enemies = <<>>
    /\ bullets = <<>>
    /\ phase = "normal"
    /\ phase_timer = 0
    /\ worluk_escaped = FALSE
    /\ game_over = FALSE
    /\ victory = FALSE
    /\ dungeon = 1
    /\ log = NoLog

\* One frame with no callback due: update runs, and a frame of every pending
\* delay passes.
GmFrame ==
    /\ \A i \in DOMAIN gm.pending : gm.pending[i] > 0
    /\ \E targets \in Targets(gm), contact \in BOOLEAN :
          LET m == GameManager_update(gm, targets, contact)
          IN  gm' = [m EXCEPT !.pending = [i \in DOMAIN @ |-> @[i] - 1], !.op = "update"]
    /\ UNCHANGED <<game2d, log>>

\* The engine runs the callback that is due: spawn_enemies.
GmCallback ==
    /\ gm.pending # <<>>
    /\ gm.pending[1] = 0
    /\ gm' = [spawn_enemies(gm) EXCEPT !.pending = Tail(@), !.op = "spawn_enemies"]
    /\ UNCHANGED <<game2d, log>>

NextGm == GmFrame \/ GmCallback

SpecGm == InitGm /\ [][NextGm]_vars

\* C2 as stated: in the isometric and the 3D variant the worluk phase is left
\* only after a worluk was spawned, and victory is set only after a wizard was
\* spawned and killed.
C2_PhaseNeedsItsEnemy ==
    /\ gm.phase = "wizard" => "worluk" \in gm.spawned
    /\ gm.victory => "wizard" \in gm.spawned /\ "wizard" \in gm.killed

---------------------------------------------------------------------------
(* The 2D game's claims, over Spec *)

Frozen == game_over \/ victory

\* C3: between two restarts the phase of the 2D game goes normal, worluk, wizard
\* in that order, a step at a time and never back; victory is set only by an
\* update entered in phase wizard and holds only in phase wizard; and once the
\* game is over or won the phase no longer changes.
C3_PhaseOrder ==
    [][/\ <<phase, phase'>> \in {<<"normal", "normal">>, <<"normal", "worluk">>,
                                 <<"worluk", "worluk">>, <<"worluk", "wizard">>,
                                 <<"wizard", "wizard">>}
       /\ victory' => phase = "wizard" /\ phase' = "wizard"
       /\ victory => victory'
       /\ Frozen => phase' = phase /\ victory' = victory /\ game_over' = game_over]_vars

\* The wizard has been shot, the game is won and was not lost.
C3_Witness ==
    /\ victory /\ ~game_over /\ phase = "wizard"
    /\ Len(log.ev.kills) = 1 /\ log.ev.kills[1].enemy_type = "wizard"

\* C4 as stated: the lives counter of the 2D game is between 0 and 3 in every
\* reachable state.
C4_LivesInRange == player.lives \in 0 .. PLAYER_LIVES

\* C5 as stated: every hit of an update takes one life; a hit that leaves 0
\* lives ends the game without a respawn, any other hit puts the player at the
\* spawn point; contact costs at most one life per update.
C5_HitHandling ==
    /\ \A i \in DOMAIN log.ev.hits :
          LET h == log.ev.hits[i]
          IN  IF h.lives = 0 THEN game_over /\ ~h.respawned
              ELSE h.respawned /\ <<player.x, player.y>> = player_spawn
    /\ Len(SelectSeq(log.ev.hits, LAMBDA h : h.kind = "contact")) <= 1

\* The candidate x of a worluk's next step lies beyond a horizontal edge.
CrossesEdge(e) ==
    LET cx == e.x + e.direction[1] * e.speed
    IN  e.enemy_type = "worluk" /\ (cx < 0 \/ cx > (GAME_WIDTH - TILE_SIZE) * Scale)

\* C6 as stated: the update of a worluk whose candidate x passes a horizontal
\* edge removes it from the enemy list, sets worluk_escaped and leaves the
\* score alone.
C6_WorlukEscapes ==
    [][(~Frozen /\ \E j \in DOMAIN enemies : CrossesEdge(enemies[j]))
         => /\ ~HasWorluk(enemies')
            /\ worluk_escaped'
            /\ player'.score = player.score]_vars

\* The enemy list is empty through the first d - 1 calls of update counted by
\* log.empty in phase from, and the d-th call leaves phase to with one enemy of
\* its species.
SpawnsOnSchedule(d, from, to) ==
    /\ (log.was = from /\ log.empty \in 1 .. d - 1) => phase = from /\ enemies = <<>>
    /\ (log.was = from /\ log.empty = d)
          => phase = to /\ Len(enemies) = 1 /\ enemies[1].enemy_type = to

\* C7 as stated: the 60th consecutive update with an empty enemy list in phase
\* normal spawns the worluk and the 90th in phase worluk the wizard, whatever
\* else happens meanwhile.
C7_AsStated ==
    /\ SpawnsOnSchedule(WORLUK_DELAY, "normal", "worluk")
    /\ SpawnsOnSchedule(WIZARD_DELAY, "worluk", "wizard")

\* C7, amended: the schedule holds for every update that is entered with the game
\* neither over nor won; an update entered after game over returns at once, and
\* the enemy awaited is never spawned.
C7_SpawnsOnSchedule == ~log.frozen => C7_AsStated

\* The wizard has just been spawned by the 90th update of the worluk phase with
\* an empty list.
C7_Witness ==
    /\ ~log.frozen /\ log.was = "worluk" /\ log.empty = WIZARD_DELAY
    /\ phase = "wizard" /\ HasWizard(enemies)

\* C8 as stated: victory is not set by the update that removes the wizard.
C8_VictoryDelayed ==
    (\E i \in DOMAIN log.ev.kills : log.ev.kills[i].enemy_type = "wizard") => ~victory

\* C9 as stated, for the 2D game: the player bullet that removes the wizard and
\* scores its points is the third to strike it; any other species goes at the
\* first hit.
C9_WizardHealth ==
    \A i \in DOMAIN log.ev.kills :
        log.ev.kills[i].enemy_type = "wizard" => log.wizard_hits = 3

\* C10: the wizard of the 2D game stands on a position of valid_positions; its
\* position changes only in an update in which its teleport countdown expires;
\* the first countdown takes 90 to 180 updates and every later one 60 to 120.
C10_WizardTeleports ==
    /\ \A j \in DOMAIN enemies :
          enemies[j].enemy_type = "wizard"
             => \E k \in DOMAIN valid_positions :
                   <<enemies[j].x, enemies[j].y>> =
                   <<valid_positions[k][1] * Scale, valid_positions[k][2] * Scale>>
    /\ log.ev.teleported => log.ev.expired
    /\ log.ev.expired
          => log.period \in (IF log.first THEN 90 .. 180 ELSE 60 .. 120)
    /\ HasWizard(enemies) => log.since < (IF log.relocated THEN 120 ELSE 180)

\* The wizard has just teleported away from the cell it stood on.
C10_Witness ==
    /\ HasWizard(enemies) /\ log.ev.teleported /\ log.ev.expired /\ ~log.first

\* The point value the rules give each species.
SpeciesValue(enemy_type) ==
    CASE enemy_type = "burwor" -> 100
      [] enemy_type = "garwor" -> 200
      [] enemy_type = "thorwor" -> 500
      [] enemy_type = "worluk" -> 1000
      [] enemy_type = "wizard" -> 2500

RECURSIVE Worth(_)
Worth(kills) ==
    IF kills = <<>> THEN 0
    ELSE SpeciesValue(Head(kills).enemy_type) + Worth(Tail(kills))

\* Three burwors, two garwors, a thorwor, the worluk and the wizard.
SessionScore ==
    3 * SpeciesValue("burwor") + 2 * SpeciesValue("garwor") + SpeciesValue("thorwor")
    + SpeciesValue("worluk") + SpeciesValue("wizard")

\* C12: in every frame of the 2D game the score grows by exactly the point
\* values of the enemies that player bullets removed in the frame's update, and
\* by nothing else; every enemy that leaves the list by a bullet is counted
\* once; the score never decreases and never exceeds 4700.
C12_ScoreByKills ==
    [][/\ player'.score = player.score + Worth(log'.ev.kills)
       /\ player'.score >= player.score
       /\ player'.score <= SessionScore
       /\ ~log'.ev.escaped =>
             Len(log'.ev.kills) =
                Len(enemies) - (IF log'.ev.empty THEN 0 ELSE Len(enemies'))]_vars

\* The wizard has been shot and the score stands at its maximum.
C12_Witness ==
    /\ player.score = SessionScore
    /\ \E i \in DOMAIN log.ev.kills : log.ev.kills[i].enemy_type = "wizard"

---------------------------------------------------------------------------
(* SpecShot: the frames of the 2D game around its bullets.  The player stands
   still and holds or releases the fire key; each run starts in one of the
   scenes below and is followed until the enemy that the 60 empty updates
   bring has been in the list for MaxSceneFrames frames.

   pair       two enemies of the first wave, a burwor and a thorwor (in either
              list order), stand on the same cell of the player's corridor, both
              heading for the player, and the bullet the player fired four
              frames ago is about to reach them
   corridor   the last enemy of the wave was shot in the previous update; the
              player stands at the spawn point facing right, at the left end of
              the long corridor of row 11 facing right, or in the tunnel row
              facing the left tunnel mouth
   last life  the last enemy of the wave, a thorwor at cell (9, 13), fired along
              the player's corridor in the update in which the player's bullet
              removed it; the player is down to the last life *)

\* The player may fire while fewer than MaxShots bullets are in the list.
MaxShots == 1

\* The frames followed while an enemy is in the list.
MaxSceneFrames == 3

\* The frames a bullet needs to cross the playfield's width.
CrossingFrames == (GAME_WIDTH + BULLET_SPEED - 1) \div BULLET_SPEED

WaveScore == 3 * points("burwor") + 2 * points("garwor") + points("thorwor")

\* The history a run of SpecShot keeps in log, beside the last update's events:
\*   space    the fire key was held in the last frame
\*   frozen   the last update returned at once (game_over or victory set)
\*   n        frames with an enemy in the list so far
\*   ages     for each bullet of the list, the frames at whose end it was in
\*            the list, up to CrossingFrames + 1
\*   multi    in the last update a player bullet overlapped several enemies
\*            when the bullet-enemy collisions were tested
\*   stopped  the bullets the last update removed in "Update bullets"
\*   wrapped  a bullet crossed a horizontal edge in the last update
ShotLog(ages) ==
    [op |-> "init", space |-> FALSE, frozen |-> FALSE, n |-> 0, ev |-> NoEvents,
     ages |-> ages, multi |-> FALSE, stopped |-> 0, wrapped |-> FALSE]

\* The enemies Enemy.__init__ can construct at a cell, heading for direction d.
Heading(x, y, enemy_type, d) ==
    {e \in Enemy(x, y, enemy_type) : e.direction = d}

ShotScenes ==
    LET home == find_player_spawn
        base == [player |-> Player(home[1], home[2]), enemies |-> <<>>,
                 bullets |-> <<>>, phase_timer |-> 1, ages |-> <<>>]
        row == 13 * TILE_SIZE + 2
        pair == {[base EXCEPT
                    !.player.score = WaveScore - points("burwor") - points("thorwor"),
                    !.player.shoot_cooldown = SHOOT_COOLDOWN - 4,
                    !.enemies = IF swap THEN <<t, [b EXCEPT !.shoot_timer = TIMER_FLOOR]>>
                                ELSE <<[b EXCEPT !.shoot_timer = TIMER_FLOOR], t>>,
                    !.bullets = <<Bullet((home[1] + TILE_SIZE \div 2 + 4 * BULLET_SPEED) * Scale,
                                         (home[2] + TILE_SIZE \div 2) * Scale, <<1, 0>>, TRUE)>>,
                    !.phase_timer = 0,
                    !.ages = <<4>>] :
                    b \in Heading(3 * TILE_SIZE + 2, row, "burwor", <<-1, 0>>),
                    t \in Heading(3 * TILE_SIZE + 2, row, "thorwor", <<-1, 0>>),
                    swap \in BOOLEAN}
        corridor == {[base EXCEPT !.player.score = WaveScore,
                                  !.player.x = at[1], !.player.y = at[2],
                                  !.player.direction = at[3]] :
                        at \in {<<home[1], home[2], <<1, 0>>>>,
                                <<1 * TILE_SIZE + 2, 11 * TILE_SIZE + 2, <<1, 0>>>>,
                                <<1 * TILE_SIZE + 2, 7 * TILE_SIZE + 2, <<-1, 0>>>>}}
        last == {[base EXCEPT
                    !.player.score = WaveScore,
                    !.player.lives = 1,
                    !.bullets = <<Bullet((9 * TILE_SIZE + 2 + TILE_SIZE \div 2) * Scale,
                                         (row + TILE_SIZE \div 2) * Scale, <<-1, 0>>, FALSE)>>,
                    !.ages = <<1>>]}
    IN  pair \cup corridor \cup last

InitShot ==
    /\ player_spawn = find_player_spawn
    /\ \E s \in ShotScenes :
          /\ player = s.player
          /\ enemies = s.enemies
          /\ bullets = s.bullets
          /\ phase_timer = s.phase_timer
          /\ log = ShotLog(s.ages)
    /\ phase = "normal"
    /\ worluk_escaped = FALSE
    /\ game_over = FALSE
    /\ victory = FALSE
    /\ dungeon = 1
    /\ gm = NoGm

\* A bullet record with its age, and without.
WithAge(b, age) ==
    [x |-> b.x, y |-> b.y, direction |-> b.direction, is_player |-> b.is_player,
     active |-> b.active, age |-> age]
NoAge(b) ==
    [x |-> b.x, y |-> b.y, direction |-> b.direction, is_player |-> b.is_player,
     active |-> b.active]

\* The number of player bullets in a list.
PlayerBullets(bs) == Len(SelectSeq(bs, LAMBDA b : b.is_player))

\* The x a bullet's move makes before the wraparound lies beyond a horizontal edge.
CrossesHorizontalEdge(b) ==
    LET cx == b.x + b.direction[1] * BULLET_SPEED * Scale
    IN  cx < 0 \/ cx > GAME_WIDTH * Scale

\* pre: the game after handle_input; g: the game the update left.
ShotHistory(pre, g, space) ==
    LET frozen == game_over \/ victory
        flying == UpdateBullets(pre).bullets
        fought == g.ev.kills \o g.enemies
    IN  [op |-> "frame",
         space |-> space,
         frozen |-> frozen,
         n |-> IF enemies # <<>> THEN log.n + 1 ELSE 0,
         ev |-> g.ev,
         ages |-> [i \in DOMAIN g.bullets |->
                      IF "age" \in DOMAIN g.bullets[i]
                        THEN Min(g.bullets[i].age + 1, CrossingFrames + 1)
                      ELSE 1],
         multi |-> ~frozen /\ \E i \in DOMAIN flying :
                      /\ flying[i].is_player
                      /\ Cardinality({j \in DOMAIN fought :
                             colliderect(BulletRect(flying[i]), EnemyRect(fought[j]))}) > 1,
         stopped |-> IF frozen THEN 0 ELSE Len(pre.bullets) - Len(flying),
         wrapped |-> ~frozen /\ \E i \in DOMAIN pre.bullets :
                        CrossesHorizontalEdge(pre.bullets[i])]

\* One iteration of Game.run's loop without a restart and with no arrow key
\* held: handle_input, update.  The bullets carry their ages through the update.
ShotFrame(space) ==
    /\ space => Len(bullets) < MaxShots
    /\ enemies # <<>> => log.n < MaxSceneFrames
    /\ LET pre == handle_input(GameState, 0, 0, space)
           aged == [pre EXCEPT !.bullets =
                       [i \in DOMAIN @ |->
                           WithAge(@[i], IF i <= Len(bullets) THEN log.ages[i] ELSE 0)]]
       IN  \E g \in update(aged, GamePicks) :
              /\ player' = g.player
              /\ enemies' = g.enemies
              /\ bullets' = [i \in DOMAIN g.bullets |-> NoAge(g.bullets[i])]
              /\ phase' = g.phase
              /\ phase_timer' = g.phase_timer
              /\ worluk_escaped' = g.worluk_escaped
              /\ game_over' = g.game_over
              /\ victory' = g.victory
              /\ log' = ShotHistory(pre, g, space)
    /\ UNCHANGED <<player_spawn, dungeon, gm>>

Hold == ShotFrame(FALSE)
Shoot == ShotFrame(TRUE)

NextShot == Hold \/ Shoot

SpecShot == InitShot /\ [][NextShot]_vars

---------------------------------------------------------------------------
(* The claims about the 2D game's bullets, over SpecShot *)

\* C11: a player bullet removes at most one enemy.  In every update that runs,
\* the enemies removed are as many as the player bullets that leave the list in
\* the collision tests; each was overlapped by a player bullet; a player bullet
\* that stays in the list overlaps no enemy that stays; and where one bullet
\* overlaps both enemies of the list, the first of the list is removed and the
\* second stays.
C11_OneEnemyPerBullet ==
    [][~Frozen =>
          LET pre == handle_input(GameState, 0, 0, log'.space)
              flying == UpdateBullets(pre).bullets
              kills == log'.ev.kills
          IN  /\ Len(kills) = PlayerBullets(flying) - PlayerBullets(bullets')
              /\ \A k \in DOMAIN kills : \E i \in DOMAIN flying :
                    /\ flying[i].is_player
                    /\ colliderect(BulletRect(flying[i]), EnemyRect(kills[k]))
              /\ ~log'.ev.empty =>
                    \A i \in DOMAIN bullets', j \in DOMAIN enemies' :
                        bullets'[i].is_player =>
                            ~colliderect(BulletRect(bullets'[i]), EnemyRect(enemies'[j]))
              /\ (log'.multi /\ Len(enemies) = 2 /\ PlayerBullets(flying) = 1) =>
                    /\ Len(kills) = 1 /\ Len(enemies') = 1
                    /\ kills[1].enemy_type = enemies[1].enemy_type
                    /\ enemies'[1].enemy_type = enemies[2].enemy_type]_vars

\* The player's bullet overlapped both enemies of the pair; one was removed with
\* the bullet and the other is still in the list.
C11_Witness ==
    /\ log.op = "frame" /\ log.multi
    /\ Len(log.ev.kills) = 1 /\ Len(enemies) = 1 /\ PlayerBullets(bullets) = 0
    /\ colliderect(EnemyRect(log.ev.kills[1]), EnemyRect(enemies[1]))

\* C13 as stated: every bullet of the list has been in it for at most 62 frames
\* (the frames a bullet needs to cross the playfield's width), whatever the state
\* of the game when it was fired.
C13_BulletsExpire ==
    \A i \in DOMAIN log.ages : log.ages[i] <= CrossingFrames

\* Where a bullet's move takes its centre: speed 14 along its direction, and
\* from beyond a horizontal edge to the opposite edge.
Landing(b) ==
    LET cx == b.x + b.direction[1] * BULLET_SPEED * Scale
    IN  <<IF cx < 0 THEN GAME_WIDTH * Scale
          ELSE IF cx > GAME_WIDTH * Scale THEN 0 ELSE cx,
          b.y + b.direction[2] * BULLET_SPEED * Scale>>

\* After its move the bullet's centre lies in a wall tile, or above or below
\* the playfield.
Stopped(b) ==
    LET at == Landing(b)
    IN  \/ at[1] >= 0 /\ at[2] >= 0 /\ InWall(at[1] \div Scale, at[2] \div Scale)
        \/ at[2] < 0
        \/ at[2] > GAME_HEIGHT * Scale

\* Bullets at the upper and the lower edge of the playfield, heading up and down.
EdgeBullets ==
    {Bullet((TILE_SIZE + TILE_SIZE \div 2) * Scale, y * Scale, d, is_player) :
        y \in {0, BULLET_SPEED - 1, GAME_HEIGHT - BULLET_SPEED + 1, GAME_HEIGHT},
        d \in {<<0, -1>>, <<0, 1>>},
        is_player \in BOOLEAN}

\* C14: a bullet whose centre, after its move, lies in a wall tile or above or
\* below the playfield is gone from the list at the end of that update, and the
\* update leaves the game as it would have left it had the bullet not been in
\* the list: it changes neither score nor lives.  A bullet that crosses a
\* horizontal edge lands on the opposite edge and stays in the list.
C14_WallBulletInert ==
    [][~Frozen =>
          LET pre == handle_input(GameState, 0, 0, log'.space)
              doomed == {i \in DOMAIN pre.bullets : Stopped(pre.bullets[i])}
              clean == [pre EXCEPT !.bullets = Without(@, doomed)]
          IN  /\ \A b \in EdgeBullets : Stopped(b) => ~Bullet_update(b).active
              /\ \A i \in doomed, k \in DOMAIN bullets' :
                    <<bullets'[k].x, bullets'[k].y>> # Landing(pre.bullets[i])
              /\ \E g \in update(clean, GamePicks) :
                    /\ g.player = player'
                    /\ g.enemies = enemies'
                    /\ g.bullets = bullets'
                    /\ g.game_over = game_over'
                    /\ g.ev = log'.ev
              /\ \A i \in DOMAIN pre.bullets :
                    CrossesHorizontalEdge(pre.bullets[i]) =>
                       /\ i \notin doomed
                       /\ Landing(pre.bullets[i])[1] \in {0, GAME_WIDTH * Scale}
                       /\ (log'.ev.kills = <<>> /\ log'.ev.hits = <<>>) =>
                             \E k \in DOMAIN bullets' :
                                <<bullets'[k].x, bullets'[k].y>> = Landing(pre.bullets[i])]_vars

\* The last update removed the only bullet of the list at a wall; the score and
\* the lives are what they were at the start of the scene.
C14_Witness ==
    /\ log.op = "frame" /\ log.stopped = 1 /\ bullets = <<>>
    /\ log.ev.kills = <<>> /\ log.ev.hits = <<>>
    /\ player.score = WaveScore /\ player.lives = PLAYER_LIVES

---------------------------------------------------------------------------
(* The claims about movement, over SpecMove *)

\* The committed x of a move along x with candidate cx from x, where the right
\* edge position is at edge: the opposite edge position if cx lies beyond an
\* edge, else the candidate or, if the move is blocked, the old x.
WrapsTo(x, cx, edge, after) ==
    /\ cx < 0 => after = edge
    /\ cx > edge => after = 0
    /\ (0 <= cx /\ cx <= edge) => after \in {cx, x}

\* C15: Player.move and Enemy.update replace a candidate x beyond the left edge
\* by the right-edge position GAME_WIDTH - TILE_SIZE and one beyond the right
\* edge by 0; the replaced position is the one committed, with y unchanged, and
\* nothing is wrapped twice.
C15_WrapsOnce ==
    [][/\ (log'.op = "move" /\ player'.direction[1] # 0) =>
             LET cx == player.x + player'.direction[1] * PLAYER_SPEED
             IN  /\ WrapsTo(player.x, cx, GAME_WIDTH - TILE_SIZE, player'.x)
                 /\ (cx < 0 \/ cx > GAME_WIDTH - TILE_SIZE) => player'.y = player.y
       /\ (log'.op = "update" /\ enemies[1].enemy_type # "wizard") =>
             LET e == enemies[1]
                 cx == e.x + e.direction[1] * e.speed
             IN  /\ WrapsTo(e.x, cx, (GAME_WIDTH - TILE_SIZE) * Scale, enemies'[1].x)
                 /\ (cx < 0 \/ cx > (GAME_WIDTH - TILE_SIZE) * Scale) =>
                       enemies'[1].y = e.y + e.direction[2] * e.speed]_vars

\* The player has just left the maze by the left tunnel mouth and stands at the
\* right-edge position.
C15_Witness ==
    /\ log.op = "move" /\ log.wrapped
    /\ player.direction = <<-1, 0>> /\ player.x = GAME_WIDTH - TILE_SIZE

\* t is a tile-aligned offset: two pixels into a tile.
Aligned(t) == (t - 2) % TILE_SIZE = 0

\* after is cur moved toward a tile-aligned offset within the slide's reach, by
\* the distance to it or by the player's speed, whichever is less.
SlidToward(cur, after) ==
    \E t \in cur - (TILE_SIZE \div 2 + 4) .. cur + (TILE_SIZE \div 2 + 4) :
        /\ Aligned(t)
        /\ after = IF t > cur THEN cur + Min(t - cur, PLAYER_SPEED)
                   ELSE cur - Min(cur - t, PLAYER_SPEED)

\* C16: a Player.move call that slides changes only the coordinate across the
\* input direction, by min(|offset|, speed) toward a tile-aligned offset and
\* never past it; a call whose candidate collides and that does not slide
\* leaves the position unchanged; a call whose candidate is free commits it.
C16_SlideBounded ==
    [][log'.op = "move" =>
          LET dx == player'.direction[1]
              dy == player'.direction[2]
              cx == player.x + dx * PLAYER_SPEED
              wx == IF cx < 0 THEN GAME_WIDTH - TILE_SIZE
                    ELSE IF cx > GAME_WIDTH - TILE_SIZE THEN 0 ELSE cx
              wy == player.y + dy * PLAYER_SPEED
              collides == OverlapsWall(Rect(wx, wy, BODY, BODY))
          IN  /\ log'.outcome = "commit" <=> ~collides
              /\ ~collides => player'.x = wx /\ player'.y = wy
              /\ log'.outcome = "slide_y" =>
                    /\ dx # 0 /\ player'.x = player.x
                    /\ SlidToward(player.y, player'.y)
                    /\ Abs(player'.y - player.y) \in 1 .. PLAYER_SPEED
              /\ log'.outcome = "slide_x" =>
                    /\ dy # 0 /\ player'.y = player.y
                    /\ SlidToward(player.x, player'.x)
                    /\ Abs(player'.x - player.x) \in 1 .. PLAYER_SPEED
              /\ log'.outcome = "blocked" =>
                    player'.x = player.x /\ player'.y = player.y]_vars

\* A slide across a horizontal input has just brought the player onto the
\* tile-aligned offset: the last step was the rest of the way, at most the speed.
C16_Witness ==
    /\ log.op = "move" /\ log.outcome = "slide_y"
    /\ Aligned(player.y) /\ player.direction[1] # 0

---------------------------------------------------------------------------
(* SpecUnit: the methods of Enemy called on an enemy of their own.  The
   constructor takes any position: the enemy is constructed on one of the
   sampled valid cells or inside a block of wall, on the corner tile (0, 0) or on
   the single wall tile (2, 12).  The game itself constructs enemies on valid
   cells only, and the maze has no closed pocket, so only an enemy constructed
   inside a wall finds all four directions blocked.  Three more positions lie in
   column 1, where the corridor runs from row 5 down to row 9 across the tunnel
   row: the cell (1, 6) above the tunnel row, the cell (1, 7) of the tunnel row
   (y = 7 * TILE_SIZE + 2, where the game places enemies and the player), and the
   position two pixels higher, y = 7 * TILE_SIZE, which an enemy coming down the
   column passes.  The player stands at the spawn point or eight steps to its
   right. *)

\* The updates one enemy is given.
MaxUnitUpdates == 2

UnitPositions ==
    SampleCells \cup {<<2, 2>>, <<2 * TILE_SIZE + 2, 12 * TILE_SIZE + 2>>}
                \cup {<<TILE_SIZE + 2, 6 * TILE_SIZE + 2>>,
                      <<TILE_SIZE + 2, 7 * TILE_SIZE + 2>>,
                      <<TILE_SIZE + 2, 7 * TILE_SIZE>>}

UnitPlayers ==
    {Player(find_player_spawn[1] + k * PLAYER_SPEED, find_player_spawn[2]) : k \in {0, 8}}

InitUnit ==
    /\ player_spawn = find_player_spawn
    /\ player \in UnitPlayers
    /\ enemies \in {<<e>> : e \in UNION {Enemy(pos[1], pos[2], t) :
                                            pos \in UnitPositions, t \in EnemyTypes}}
    /\ bullets = <<>>
    /\ phase = "normal"
    /\ phase_timer = 0
    /\ worluk_escaped = FALSE
    /\ game_over = FALSE
    /\ victory = FALSE
    /\ dungeon = 1
    /\ log = [op |-> "init", n |-> 0]
    /\ gm = NoGm

\* enemy.update(MAZE, player, valid_positions).  A call that has no outcome
\* has raised an exception.
CallUpdate ==
    /\ log.n < MaxUnitUpdates
    /\ LET after == Enemy_update(enemies[1], player, valid_positions, SampleCells)
       IN  /\ IF after = {} THEN UNCHANGED enemies
              ELSE \E e \in after : enemies' = <<e>>
           /\ log' = [op |-> "update", n |-> log.n + 1, raised |-> after = {}]
    /\ UNCHANGED <<player, player_spawn, bullets, phase, phase_timer,
                   worluk_escaped, game_over, victory, dungeon, gm>>

\* enemy.get_shoot_direction(player).
CallShootDirection ==
    /\ log' = [op |-> "get_shoot_direction", n |-> log.n,
               direction |-> get_shoot_direction(enemies[1], player)]
    /\ UNCHANGED <<player, player_spawn, enemies, bullets, phase, phase_timer,
                   worluk_escaped, game_over, victory, dungeon, gm>>

\* enemy._pick_new_direction(player); log.before is the direction on entry.
CallPickNewDirection ==
    /\ \E d \in pick_new_direction(enemies[1], player) :
          enemies' = <<[enemies[1] EXCEPT !.direction = d]>>
    /\ log' = [op |-> "pick_new_direction", n |-> log.n,
               before |-> enemies[1].direction]
    /\ UNCHANGED <<player, player_spawn, bullets, phase, phase_timer,
                   worluk_escaped, game_over, victory, dungeon, gm>>

NextUnit == CallUpdate \/ CallShootDirection \/ CallPickNewDirection

SpecUnit == InitUnit /\ [][NextUnit]_vars

\* The enemy's box, displaced by (dx, dy) tenths of a pixel, overlaps a wall.
Blocked(e, dx, dy) ==
    OverlapsWall(Rect(Trunc(e.x + dx), Trunc(e.y + dy), BODY, BODY))

\* All four directions _pick_new_direction probes are blocked.
BoxedIn(e) ==
    \A d \in DirSet : Blocked(e, d[1] * e.speed * 2, d[2] * e.speed * 2)

\* C17: an update of an enemy (of a moving species) whose candidate position
\* collides with a wall leaves its position unchanged and picks a direction: one
\* that the probe finds free or, if all four probes collide, the direction the
\* enemy had; no update raises an error.
C17_BlockedEnemyStays ==
    [][(log'.op = "update" /\ enemies[1].enemy_type # "wizard") =>
          LET e == enemies[1]
              cx == e.x + e.direction[1] * e.speed
              wx == IF cx < 0 THEN (GAME_WIDTH - TILE_SIZE) * Scale
                    ELSE IF cx > (GAME_WIDTH - TILE_SIZE) * Scale THEN 0 ELSE cx
              collides == Blocked(e, wx - e.x, e.direction[2] * e.speed)
              d == enemies'[1].direction
          IN  /\ ~log'.raised
              /\ collides =>
                    /\ enemies'[1].x = e.x /\ enemies'[1].y = e.y
                    /\ IF BoxedIn(e) THEN d = e.direction
                       ELSE ~Blocked(e, d[1] * e.speed * 2, d[2] * e.speed * 2)]_vars

\* An enemy inside a block of wall, all four probes blocked, has been updated
\* and stands where it stood.
C17_Witness ==
    /\ log.op = "update" /\ ~log.raised
    /\ enemies[1].enemy_type # "wizard" /\ BoxedIn(enemies[1])

---------------------------------------------------------------------------
(* SpecReset: the restart of the 2D game.  Pressing R calls reset_game from
   whatever state the game is in; the runs start from states of a session under
   way (the initial states of Spec, with the last enemy of the first wave in the
   list and bullets in flight), from the state in which that session is lost and
   from the state in which it is won, and every state a restart leaves can be
   restarted again. *)

\* The selections random.sample(enemy_spawn_positions, 6) is sampled at:
\* WaveSamples runs of six consecutive positions, spread from the first to the
\* last of the list, each in list order and in reverse.
WaveSamples == 4

enemy_spawn_positions == find_valid_spawn_positions(6)

enemy_types == <<"burwor", "burwor", "burwor", "garwor", "garwor", "thorwor">>

WaveSelections ==
    LET n == Len(enemy_spawn_positions)
        num_enemies == Min(6, n)
        starts == {1 + (j * (n - num_enemies)) \div (WaveSamples - 1) :
                      j \in 0 .. WaveSamples - 1}
    IN  {[i \in 1 .. num_enemies |-> enemy_spawn_positions[s + i - 1]] : s \in starts}
        \cup {[i \in 1 .. num_enemies |-> enemy_spawn_positions[s + num_enemies - i]] :
                 s \in starts}

\* The enemy Enemy.__init__ constructs when random.choice gives direction d
\* and the randint calls give st and (for a garwor) it.
Made(pos, enemy_type, d, st, it) ==
    CHOOSE e \in Enemy(pos[1], pos[2], enemy_type) :
        /\ e.direction = d
        /\ e.shoot_timer = st
        /\ enemy_type = "garwor" => e.invisible_timer = it

\* The waves reset_game's loop can append for a selection.  The six
\* constructors' random draws are sampled together: all six draw the same
\* direction and the same timers.
Wave(selected) ==
    {[i \in DOMAIN selected |-> Made(selected[i], enemy_types[i], d, st, it)] :
        d \in DirSet, st \in RandInt(30, 90), it \in RandInt(60, 120)}

\* A faulty variant: the score is kept over the restart.
reset_game_keep_score(g) ==
    {[g EXCEPT !.player = [Player(find_player_spawn[1], find_player_spawn[2])
                              EXCEPT !.score = g.player.score],
               !.player_spawn = find_player_spawn,
               !.bullets = <<>>,
               !.enemies = wave,
               !.phase = "normal",
               !.phase_timer = 0,
               !.worluk_escaped = FALSE,
               !.game_over = FALSE,
               !.victory = FALSE] :
        wave \in UNION {Wave(selected) : selected \in WaveSelections}}

\* Game.reset_game: the games the call can leave.  The particles, the message
\* and Game.frame only drive presentation and are left out.
reset_game(g) ==
    {[g EXCEPT !.player = Player(find_player_spawn[1], find_player_spawn[2]),
               !.player_spawn = find_player_spawn,
               !.bullets = <<>>,
               !.enemies = wave,
               !.phase = "normal",
               !.phase_timer = 0,
               !.worluk_escaped = FALSE,
               !.game_over = FALSE,
               !.victory = FALSE] :
        wave \in UNION {Wave(selected) : selected \in WaveSelections}}

\* States of a session: under way, lost, and won.
SessionSamples ==
    LET home == find_player_spawn
        row == (home[2] + TILE_SIZE \div 2) * Scale
        base == [player |-> Player(home[1], home[2]), enemies |-> <<>>,
                 bullets |-> <<>>, phase |-> "normal", phase_timer |-> 0,
                 game_over |-> FALSE, victory |-> FALSE]
        mine == Bullet((home[1] + TILE_SIZE \div 2 + 4 * BULLET_SPEED) * Scale, row,
                       <<1, 0>>, TRUE)
        theirs == Bullet((9 * TILE_SIZE + 2 + TILE_SIZE \div 2) * Scale, row,
                         <<-1, 0>>, FALSE)
        under_way ==
            {[base EXCEPT !.player.score = WaveScore - points("burwor"),
                          !.player.shoot_cooldown = SHOOT_COOLDOWN - 4,
                          !.player.lives = IF last_life THEN 1 ELSE PLAYER_LIVES,
                          !.bullets = IF last_life THEN <<mine, theirs>> ELSE <<mine>>,
                          !.enemies = <<[e EXCEPT !.shoot_timer = TIMER_FLOOR]>>] :
                last_life \in BOOLEAN,
                e \in Heading(3 * TILE_SIZE + 2, 13 * TILE_SIZE + 2, "burwor", <<-1, 0>>)}
        lost == [base EXCEPT !.player.score = WaveScore, !.player.lives = 0,
                             !.phase_timer = 22, !.game_over = TRUE]
        won == [base EXCEPT !.player.score = WaveScore + points("worluk") + points("wizard"),
                            !.phase = "wizard", !.phase_timer = 1, !.victory = TRUE]
    IN  under_way \cup {lost, won}

InitReset ==
    /\ player_spawn = find_player_spawn
    /\ \E s \in SessionSamples :
          /\ player = s.player
          /\ enemies = s.enemies
          /\ bullets = s.bullets
          /\ phase = s.phase
          /\ phase_timer = s.phase_timer
          /\ game_over = s.game_over
          /\ victory = s.victory
    /\ worluk_escaped = FALSE
    /\ dungeon = 1
    /\ log = [op |-> "init", n |-> 0, over |-> FALSE, won |-> FALSE]
    /\ gm = NoGm

\* Game.run's handler of the R key: the dungeon counter, then reset_game.
Restart ==
    /\ dungeon' = IF victory THEN dungeon + 1 ELSE 1
    /\ \E g \in reset_game(GameState) :
          /\ player' = g.player
          /\ player_spawn' = g.player_spawn
          /\ enemies' = g.enemies
          /\ bullets' = g.bullets
          /\ phase' = g.phase
          /\ phase_timer' = g.phase_timer
          /\ worluk_escaped' = g.worluk_escaped
          /\ game_over' = g.game_over
          /\ victory' = g.victory
    /\ log' = [op |-> "restart", n |-> 0, over |-> game_over, won |-> victory]
    /\ UNCHANGED gm

NextReset == Restart

SpecReset == InitReset /\ [][NextReset]_vars

\* The maze cell of a tile-aligned position, as (col, row).
CellOf(x, y) == <<(x - 2) \div TILE_SIZE, (y - 2) \div TILE_SIZE>>

\* The Manhattan distance of two cells, in tiles.
Manhattan(a, b) == Abs(a[1] - b[1]) + Abs(a[2] - b[2])

\* A position of the upper portion of the maze: tile-aligned, on an open cell
\* of rows 0 to 6, clear of every wall, more than 6 tiles from the player's
\* spawn cell.
UpperSpawn(x, y) ==
    LET cell == CellOf(x, y)
    IN  /\ Aligned(x) /\ Aligned(y)
        /\ cell[1] \in 0 .. MAZE_WIDTH - 1 /\ cell[2] \in 0 .. 6
        /\ MazeAt(cell[2], cell[1]) = 0
        /\ ~OverlapsWall(Rect(x, y, BODY, BODY))
        /\ Manhattan(cell, CellOf(find_player_spawn[1], find_player_spawn[2])) > 6

Count(es, enemy_type) == Len(SelectSeq(es, LAMBDA e : e.enemy_type = enemy_type))

\* C18: immediately after reset_game the enemy list holds exactly 3 burwors, 2
\* garwors and 1 thorwor, on pairwise distinct valid open cells of maze rows 0
\* to 6, none within 6 tiles Manhattan distance of the player's spawn cell; and
\* so lies every position reset_game can select.
C18_FirstWave ==
    /\ \A k \in DOMAIN enemy_spawn_positions :
          UpperSpawn(enemy_spawn_positions[k][1], enemy_spawn_positions[k][2])
    /\ log.op = "restart" =>
          /\ Len(enemies) = 6
          /\ Count(enemies, "burwor") = 3
          /\ Count(enemies, "garwor") = 2
          /\ Count(enemies, "thorwor") = 1
          /\ \A i \in DOMAIN enemies :
                /\ enemies[i].x % Scale = 0 /\ enemies[i].y % Scale = 0
                /\ UpperSpawn(enemies[i].x \div Scale, enemies[i].y \div Scale)
          /\ \A i, j \in DOMAIN enemies :
                i # j => <<enemies[i].x, enemies[i].y>> # <<enemies[j].x, enemies[j].y>>

\* A restart has just put an enemy on the position of the list nearest the
\* player's spawn cell, cell (1, 6).
C18_Witness ==
    /\ log.op = "restart"
    /\ \E i \in DOMAIN enemies :
          <<enemies[i].x, enemies[i].y>> =
          <<(1 * TILE_SIZE + 2) * Scale, (6 * TILE_SIZE + 2) * Scale>>

\* An enemy as Enemy.__init__ leaves it: the species' speed, one of the four
\* directions, the timers within the ranges they are drawn from.
JustConstructed(e) ==
    /\ e.speed = base_speed(e.enemy_type) * ENEMY_SPEED_MULTIPLIER_NUM
    /\ e.direction \in DirSet
    /\ e.shoot_timer \in 30 .. 90
    /\ e.active /\ e.visible
    /\ e.invisible_timer \in (IF e.enemy_type = "garwor" THEN 60 .. 120 ELSE {0})
    /\ e.teleport_timer \in (IF e.enemy_type = "wizard" THEN 90 .. 180 ELSE {0})

----------------------------------------------------------------------------
(* get_shoot_direction's claim, over SpecUnit. *)

\* C20 as stated: the direction get_shoot_direction returns points from the
\* enemy toward the player along the axis on which their offset has the larger
\* magnitude: horizontal when |dx| > |dy|, vertical when |dy| > |dx|.  The code
\* chooses the axis by comparing |dx| with two tiles and never reads |dy|.
C20_LargerAxis ==
    log.op = "get_shoot_direction" =>
       LET dx == player.x * Scale - enemies[1].x
           dy == player.y * Scale - enemies[1].y
       IN  /\ Abs(dx) > Abs(dy) => log.direction = <<Sign(dx), 0>>
           /\ Abs(dy) > Abs(dx) => log.direction = <<0, Sign(dy)>>

---------------------------------------------------------------------------
(* The restart's further claim, over SpecReset *)

\* C21 as stated: pressing R in the victory state increments the dungeon
\* counter by 1 and keeps the player's score in the new session; pressing R in
\* any other state sets the dungeon counter to 1.
C21_RestartKeepsScore ==
    [][/\ victory => dungeon' = dungeon + 1 /\ player'.score = player.score
       /\ ~victory => dungeon' = 1]_vars

---------------------------------------------------------------------------
(* The claims about the terminal states *)

\* C22 as stated: game_over and victory are never both true, also when the last
\* enemy is killed and the player loses the last life in the same update.
C22_OneTerminalState == ~(game_over /\ victory)

\* C23 as stated: once game_over or victory is set, every later frame leaves the
\* player's position and direction, the bullet list, the enemy list, the score,
\* the lives and the phase unchanged, whatever keys are held.
C23_FrozenAfterEnd ==
    [][Frozen =>
          /\ <<player'.x, player'.y, player'.direction>> =
             <<player.x, player.y, player.direction>>
          /\ bullets' = bullets
          /\ enemies' = enemies
          /\ player'.score = player.score /\ player'.lives = player.lives
          /\ phase' = phase]_vars

---------------------------------------------------------------------------
(* The claims about _pick_new_direction, over SpecUnit *)

\* C24: after _pick_new_direction the enemy's direction is the one it had or
\* one of the four axis directions whose probe (the enemy's box displaced by
\* 2 x speed) overlaps no wall; it is never (0, 0) and never a direction whose
\* probe collides, and the call changes nothing but the direction.
C24_PicksFreeDirection ==
    [][log'.op = "pick_new_direction" =>
          LET e == enemies[1]
              d == enemies'[1].direction
          IN  /\ enemies'[1] = [e EXCEPT !.direction = d]
              /\ d # <<0, 0>>
              /\ \/ d = e.direction
                 \/ /\ d \in {<<1, 0>>, <<-1, 0>>, <<0, 1>>, <<0, -1>>}
                    /\ ~Blocked(e, d[1] * e.speed * 2, d[2] * e.speed * 2)
              /\ ~BoxedIn(e) =>
                    ~Blocked(e, d[1] * e.speed * 2, d[2] * e.speed * 2)]_vars

\* An enemy with a wall on some side, level with the player, so that the chase
\* branch has a zero component to offer, has just turned to a new direction.
C24_Witness ==
    /\ log.op = "pick_new_direction"
    /\ enemies[1].direction # log.before
    /\ enemies[1].enemy_type \notin {"worluk", "wizard"}
    /\ enemies[1].y = player.y * Scale
    /\ \E d \in DirSet :
          Blocked(enemies[1], d[1] * enemies[1].speed * 2, d[2] * enemies[1].speed * 2)

\* The probe of direction d from the enemy's position overlaps no wall.
Free(e, d) == ~Blocked(e, d[1] * e.speed * 2, d[2] * e.speed * 2)

\* Where the enemy's box lies relative to the tunnel row, row 7 of the maze:
\* its top edge above the row, the whole box inside the row, or its bottom edge
\* below the row.
AboveTunnelRow(e) == e.y < 7 * TILE_SIZE * Scale
InTunnelRow(e) ==
    /\ e.y >= 7 * TILE_SIZE * Scale
    /\ Trunc(e.y) + BODY <= 8 * TILE_SIZE
BelowTunnelRow(e) == Trunc(e.y) + BODY > 8 * TILE_SIZE

\* C25 as stated: a worluk that picks a new direction picks down when it is
\* above the tunnel row and down is free, up when it is below and up is free,
\* and left or right, never a vertical direction, when it stands in the tunnel
\* row and one of the two is free.  The code takes the worluk to be in the
\* tunnel row only at y = 7 * TILE_SIZE exactly; the cells of the row lie at
\* y = 7 * TILE_SIZE + 2.
C25_WorlukHeadsForTunnel ==
    [][(log'.op = "pick_new_direction" /\ enemies[1].enemy_type = "worluk") =>
          LET e == enemies[1]
              d == enemies'[1].direction
          IN  /\ (AboveTunnelRow(e) /\ Free(e, <<0, 1>>)) => d = <<0, 1>>
              /\ (BelowTunnelRow(e) /\ Free(e, <<0, -1>>)) => d = <<0, -1>>
              /\ (InTunnelRow(e) /\ (Free(e, <<-1, 0>>) \/ Free(e, <<1, 0>>))) =>
                    d \in {<<-1, 0>>, <<1, 0>>} /\ Free(e, d)]_vars

---------------------------------------------------------------------------
(* SpecVolley: the frames of the 2D game around one enemy, followed through its
   timers for as long as it is in the list, over at most MaxVolleyFrames
   updates.  No arrow key is held.  A run starts in one of these scenes:

   wave     the last enemy of the first wave, a burwor, a garwor or a thorwor,
            at cell (9, 5) heading left along the corridor of row 5, at whose
            left end, on cell (1, 5), the player stands facing right; the
            player may fire at a garwor in its row, seen or unseen, while no
            bullet of its own is in flight
   worluk   spawn_worluk has just put the worluk into the empty list; the
            player stands at the spawn point
   wizard   spawn_wizard has just put the wizard into the empty list; the
            player stands at the spawn point

   random.random() < 0.03, the reconsideration of the direction after a move,
   is sampled at no whenever it would turn an enemy that has just moved: the
   enemies turn at walls only.  random.choice(self.valid_positions) is sampled
   at the cells (9, 5) and (1, 1). *)

MaxVolleyFrames == 300

VolleyPicks ==
    {cell \in Range(valid_positions) :
        cell \in {<<9 * TILE_SIZE + 2, 5 * TILE_SIZE + 2>>,
                  <<1 * TILE_SIZE + 2, 1 * TILE_SIZE + 2>>}}

\* The history a run of SpecVolley keeps in log, beside the last update's events:
\*   space       the fire key was held in the last frame
\*   frozen      the last update returned at once (game_over or victory set)
\*   n           updates of the enemy in the list so far
\*   shots       bullets the enemy in the list has fired so far, up to 2
\*   gap         updates of the enemy since the one in which it last fired, up to 201
\*   since_flip  updates of the enemy since its visibility last changed, up to 121
\*   dark        consecutive updates that left the enemy invisible, up to 121
VolleyLog ==
    [op |-> "init", space |-> FALSE, frozen |-> FALSE, n |-> 0, ev |-> NoEvents,
     shots |-> 0, gap |-> 0, since_flip |-> 0, dark |-> 0]

VolleyScenes ==
    LET home == find_player_spawn
        waiting == [player |-> [Player(home[1], home[2]) EXCEPT !.score = WaveScore],
                    player_spawn |-> home, enemies |-> <<>>, bullets |-> <<>>,
                    phase |-> "normal", phase_timer |-> WORLUK_DELAY,
                    worluk_escaped |-> FALSE, game_over |-> FALSE, victory |-> FALSE,
                    ev |-> NoEvents]
        wave == {[waiting EXCEPT
                     !.player = [Player(TILE_SIZE + 2, 5 * TILE_SIZE + 2) EXCEPT
                                    !.score = WaveScore - points(e.enemy_type)],
                     !.enemies = <<e>>,
                     !.phase_timer = 0] :
                    e \in UNION {Heading(9 * TILE_SIZE + 2, 5 * TILE_SIZE + 2, t, <<-1, 0>>) :
                                    t \in {"burwor", "garwor", "thorwor"}}}
    IN  wave
        \cup spawn(waiting, "worluk", VolleyPicks)
        \cup spawn([waiting EXCEPT !.phase = "worluk", !.phase_timer = WIZARD_DELAY,
                                   !.worluk_escaped = TRUE],
                   "wizard", VolleyPicks)

InitVolley ==
    /\ player_spawn = find_player_spawn
    /\ \E s \in VolleyScenes :
          /\ player = s.player
          /\ enemies = s.enemies
          /\ phase = s.phase
          /\ phase_timer = s.phase_timer
          /\ worluk_escaped = s.worluk_escaped
    /\ bullets = <<>>
    /\ game_over = FALSE
    /\ victory = FALSE
    /\ dungeon = 1
    /\ log = VolleyLog
    /\ gm = NoGm

\* The enemy after the update has turned only where it stood.
Steady(e, u) ==
    u.direction # e.direction => <<u.x, u.y>> = <<e.x, e.y>>

\* pre: the game after handle_input; g: the game the update left.
VolleyHistory(pre, g, space) ==
    LET frozen == game_over \/ victory
        same == enemies # <<>> /\ g.enemies # <<>>
        fired == g.ev.fired # <<>>
        flipped == same /\ g.enemies[1].visible # enemies[1].visible
    IN  [op |-> "frame",
         space |-> space,
         frozen |-> frozen,
         ev |-> g.ev,
         n |-> IF frozen THEN log.n ELSE IF same THEN log.n + 1 ELSE 0,
         shots |-> IF frozen THEN log.shots
                   ELSE IF ~same THEN 0
                   ELSE IF fired THEN Min(log.shots + 1, 2) ELSE log.shots,
         gap |-> IF frozen THEN log.gap
                 ELSE IF ~same \/ fired THEN 0
                 ELSE Min(log.gap + 1, 201),
         since_flip |-> IF frozen THEN log.since_flip
                        ELSE IF ~same \/ flipped THEN 0
                        ELSE Min(log.since_flip + 1, 121),
         dark |-> IF frozen THEN log.dark
                  ELSE IF ~same \/ g.enemies[1].visible THEN 0
                  ELSE Min(log.dark + 1, 121)]

\* One iteration of Game.run's loop without a restart and with no arrow key
\* held: handle_input, update.
VolleyFrame(space) ==
    /\ enemies # <<>>
    /\ log.n < MaxVolleyFrames
    /\ space => /\ InSight /\ PlayerBullets(bullets) = 0
                /\ \E j \in DOMAIN enemies : enemies[j].enemy_type = "garwor"
    /\ LET pre == handle_input(GameState, 0, 0, space)
       IN  \E g \in update(pre, VolleyPicks) :
              /\ g.enemies # <<>> => Steady(enemies[1], g.enemies[1])
              /\ player' = g.player
              /\ enemies' = g.enemies
              /\ bullets' = g.bullets
              /\ phase' = g.phase
              /\ phase_timer' = g.phase_timer
              /\ worluk_escaped' = g.worluk_escaped
              /\ game_over' = g.game_over
              /\ victory' = g.victory
              /\ log' = VolleyHistory(pre, g, space)
    /\ UNCHANGED <<player_spawn, dungeon, gm>>

Release == VolleyFrame(FALSE)
Press == VolleyFrame(TRUE)

NextVolley == Release \/ Press

SpecVolley == InitVolley /\ [][NextVolley]_vars

---------------------------------------------------------------------------
(* The claims about the enemies' timers, over SpecVolley *)

\* The least number of updates between two shots of a species.
Reload(enemy_type) == IF enemy_type = "wizard" THEN 30 ELSE 90

\* C26: an update creates enemy-owned bullets only for a garwor, a thorwor or a
\* wizard whose shoot_timer, counted down by the update, is at or below 0, and
\* at the shooter's position; the shot comes at least 30 updates after the
\* enemy's previous shot if it is a wizard and at least 90 otherwise; a wizard
\* that has fired fires again in the 60th update after at the latest; and every
\* other enemy-owned bullet of the list was in the list before.
C26_EnemyFire ==
    [][(~Frozen /\ enemies # <<>>) =>
          LET e == enemies[1]
              fired == log'.ev.fired
          IN  /\ fired # <<>> =>
                    /\ Len(fired) = 1 /\ ~fired[1].is_player
                    /\ e.enemy_type \in {"garwor", "thorwor", "wizard"}
                    /\ e.shoot_timer - 1 <= 0
                    /\ log.shots > 0 => log.gap + 1 >= Reload(e.enemy_type)
                    /\ enemies' # <<>> =>
                          <<fired[1].x, fired[1].y>> =
                          <<enemies'[1].x + (TILE_SIZE \div 2) * Scale,
                            enemies'[1].y + (TILE_SIZE \div 2) * Scale>>
              /\ (e.enemy_type = "wizard" /\ log.shots > 0 /\ log.gap + 1 >= 60) =>
                    fired # <<>>
              /\ \A k \in DOMAIN bullets' :
                    ~bullets'[k].is_player =>
                       \/ bullets'[k] \in Range(fired)
                       \/ \E i \in DOMAIN bullets :
                             /\ ~bullets[i].is_player
                             /\ <<bullets'[k].x, bullets'[k].y>> = Landing(bullets[i])]_vars

\* A thorwor has just fired its second bullet.
C26_Witness ==
    /\ log.op = "frame" /\ log.ev.fired # <<>> /\ log.shots = 2
    /\ enemies # <<>> /\ enemies[1].enemy_type = "thorwor"

\* C27: a garwor's visibility changes exactly in the updates in which its
\* countdown reaches 0, the 60th to 120th update after the previous change (or
\* after its construction), so no garwor is left invisible by more than 120
\* updates in a row; a burwor, a thorwor and a worluk are visible before and
\* after every update.
C27_GarworCloak ==
    [][(~Frozen /\ enemies # <<>> /\ enemies' # <<>>) =>
          LET e == enemies[1]
              u == enemies'[1]
          IN  /\ e.enemy_type = "garwor" =>
                    /\ (u.visible # e.visible) <=> (e.invisible_timer - 1 <= 0)
                    /\ (u.visible # e.visible) => log.since_flip + 1 \in 60 .. 120
                    /\ log'.dark <= 120
              /\ e.enemy_type \in {"burwor", "thorwor", "worluk"} =>
                    e.visible /\ u.visible]_vars

\* A garwor has been invisible for 120 updates in a row.
C27_Witness ==
    /\ log.op = "frame" /\ log.dark = 120
    /\ enemies # <<>> /\ enemies[1].enemy_type = "garwor" /\ ~enemies[1].visible

\* C28 as stated: an invisible garwor cannot be hit by player bullets: no
\* player bullet removes it or scores for it.
C28_CloakedGarworSafe ==
    \A k \in DOMAIN log.ev.kills :
        log.ev.kills[k].enemy_type = "garwor" => log.ev.kills[k].visible

(***************************************************************************)
(* The player's reload: the frames between the update that removed the     *)
(* last enemy of the first wave (it left phase_timer at 1) and the         *)
(* worluk's arrival, the player standing at the spawn point with the fire  *)
(* key free to be held or released in every frame.                         *)
(***************************************************************************)

\* The history of a reload scene:
\*   held   consecutive frames with the fire key held, up to 13
\*   since  frames since the one that created the last player bullet, up to 13
\*   apart  frames between the last player bullet and the one before it, up to
\*          13; 0 while fewer than two bullets were created
\*   shots  player bullets created so far, up to 2
ReloadLog ==
    [op |-> "init", n |-> 0, held |-> 0, since |-> 0, apart |-> 0, shots |-> 0]

InitReload ==
    /\ player_spawn = find_player_spawn
    /\ player = [Player(player_spawn[1], player_spawn[2]) EXCEPT !.score = WaveScore]
    /\ enemies = <<>>
    /\ bullets = <<>>
    /\ phase = "normal"
    /\ phase_timer = 1
    /\ worluk_escaped = FALSE
    /\ game_over = FALSE
    /\ victory = FALSE
    /\ dungeon = 1
    /\ log = ReloadLog
    /\ gm = NoGm

\* pre: the game after handle_input.
ReloadHistory(pre, space) ==
    LET created == Len(pre.bullets) > Len(bullets)
    IN  [op |-> "frame",
         n |-> log.n + 1,
         held |-> IF space THEN Min(log.held + 1, 13) ELSE 0,
         since |-> IF created THEN 0 ELSE Min(log.since + 1, 13),
         apart |-> IF created /\ log.shots > 0 THEN Min(log.since + 1, 13)
                   ELSE log.apart,
         shots |-> IF created THEN Min(log.shots + 1, 2) ELSE log.shots]

\* One iteration of Game.run's loop without a restart and with no arrow key
\* held, while the maze is empty: handle_input, update.
ReloadFrame(space) ==
    /\ enemies = <<>>
    /\ LET pre == handle_input(GameState, 0, 0, space)
       IN  \E g \in update(pre, VolleyPicks) :
              /\ player' = g.player
              /\ enemies' = g.enemies
              /\ bullets' = g.bullets
              /\ phase' = g.phase
              /\ phase_timer' = g.phase_timer
              /\ worluk_escaped' = g.worluk_escaped
              /\ game_over' = g.game_over
              /\ victory' = g.victory
              /\ log' = ReloadHistory(pre, space)
    /\ UNCHANGED <<player_spawn, dungeon, gm>>

KeyUp == ReloadFrame(FALSE)
KeyDown == ReloadFrame(TRUE)

NextReload == KeyUp \/ KeyDown

SpecReload == InitReload /\ [][NextReload]_vars

\* C29: two consecutive player bullets are created at least 12 frames apart
\* however long the fire key is held, and the player's shoot cooldown is
\* within 0..11 at every frame boundary.
C29_FireRate ==
    /\ player.shoot_cooldown \in 0 .. 11
    /\ log.shots = 2 => log.apart >= 12

\* The fire key was held for 13 frames on end and the bullet the last frame
\* created came 12 frames after the one before it.
C29_Witness ==
    /\ log.held = 13
    /\ log.since = 0
    /\ log.shots = 2
    /\ log.apart = 12

---------------------------------------------------------------------------
(* The claim about the bullets' owners, over SpecVolley *)

\* The bullet overlaps the player standing at (x, y).
Strikes(b, x, y) == colliderect(BulletRect(b), Rect(x, y, BODY, BODY))

\* C30: a player-owned bullet never costs a life or moves the player to the
\* spawn point: an update in which no enemy-owned bullet overlaps the player
\* and no enemy touches the player leaves lives, position and game_over alone.
\* An enemy-owned bullet never removes an enemy or changes the score: the
\* update leaves the enemies and the score it would have left had no
\* enemy-owned bullet been in the list, every enemy it removed as killed is
\* overlapped by a player-owned bullet, no other enemy is missing but an
\* escaped worluk, and the score grows by the points of the enemies killed;
\* and an enemy-owned bullet that neither
\* lands in a wall or beyond the vertical bounds nor overlaps the player is
\* still in the list after the update, at its landing point.
C30_OwnersApart ==
    [][~Frozen =>
          LET pre == handle_input(GameState, 0, 0, log'.space)
              theirs == {i \in DOMAIN pre.bullets : ~pre.bullets[i].is_player}
              clean == [pre EXCEPT !.bullets = Without(@, theirs)]
              flying == {Landing(pre.bullets[i]) : i \in theirs}
                        \cup {<<log'.ev.fired[k].x, log'.ev.fired[k].y>> :
                                 k \in DOMAIN log'.ev.fired}
              threat ==
                  \/ \E at \in flying :
                        Strikes(Bullet(at[1], at[2], <<1, 0>>, FALSE),
                                pre.player.x, pre.player.y)
                  \/ \E j \in DOMAIN enemies' :
                        colliderect(PlayerRect(pre.player), EnemyRect(enemies'[j]))
                  \/ log'.ev.escaped
          IN  /\ ~threat =>
                    /\ player'.lives = player.lives
                    /\ <<player'.x, player'.y>> = <<pre.player.x, pre.player.y>>
                    /\ game_over' = game_over
              /\ \E g \in update(clean, VolleyPicks) :
                    /\ g.enemies = enemies'
                    /\ g.player.score = player'.score
                    /\ g.ev.kills = log'.ev.kills
              /\ \A k \in DOMAIN log'.ev.kills :
                    \E i \in DOMAIN pre.bullets :
                       LET at == Landing(pre.bullets[i])
                       IN  /\ pre.bullets[i].is_player
                           /\ colliderect(BulletRect(Bullet(at[1], at[2], <<1, 0>>, TRUE)),
                                          EnemyRect(log'.ev.kills[k]))
              /\ Len(enemies') = Len(enemies) - Len(log'.ev.kills)
                                 - (IF log'.ev.escaped THEN 1 ELSE 0)
              /\ player'.score = player.score + Worth(log'.ev.kills)
              /\ \A i \in theirs :
                    LET b == pre.bullets[i]
                        at == Landing(b)
                    IN  (/\ ~Stopped(b)
                         /\ ~Strikes(Bullet(at[1], at[2], b.direction, FALSE),
                                     pre.player.x, pre.player.y)
                         /\ ~Strikes(Bullet(at[1], at[2], b.direction, FALSE),
                                     player_spawn[1], player_spawn[2]))
                        => \E k \in DOMAIN bullets' :
                              /\ ~bullets'[k].is_player
                              /\ <<bullets'[k].x, bullets'[k].y>> = at]_vars

\* The last update left an enemy-owned bullet overlapping an enemy, both in
\* their lists, and a player-owned bullet overlapping the player, whose lives
\* are untouched.
C30_Witness ==
    /\ log.op = "frame"
    /\ log.ev.kills = <<>> /\ log.ev.hits = <<>>
    /\ player.lives = PLAYER_LIVES
    /\ \E k \in DOMAIN bullets, j \in DOMAIN enemies :
          /\ ~bullets[k].is_player
          /\ colliderect(BulletRect(bullets[k]), EnemyRect(enemies[j]))
    /\ \E k \in DOMAIN bullets :
          /\ bullets[k].is_player
          /\ Strikes(bullets[k], player.x, player.y)

=============================================================================
